---- MODULE Spec2Model ----
(***************************************************************************)
(* Restock budget allocator of ml-service                                  *)
(* (app/services/restock_service.py, app/schemas/restock_schema.py).       *)
(*                                                                         *)
(* One behaviour is one call of compute_restock_strategy on one validated  *)
(* RestockRequest.  Numbers are exact rationals:                           *)
(*   - money (price, cost, budget, total_cost, ...) is counted in units of *)
(*     1/MoneyScale of a currency unit;                                    *)
(*   - avg_daily_sales is counted in units of 1/SalesDen per day;          *)
(*   - adjusted demand is counted in units of 1/AdjDen per day;            *)
(*   - scores, ratios and days are pairs <<num, den>> in lowest terms.     *)
(*                                                                         *)
(* profit_maximization (207-472), volume_maximization (475-731) and        *)
(* balanced_strategy (734-1026) repeat the same urgency cascade, quantity  *)
(* rules, critical split, sorts and greedy loop; they differ in the score  *)
(* (ProfitScore, VolumeScore, HybridScore).  The model has one copy of the *)
(* shared code, selected by request.goal.                                  *)
(*                                                                         *)
(* pc: start -> filtered -> done (no valid product), or                    *)
(*     start -> filtered -> scan -> exhausted | complete -> done.          *)
(***************************************************************************)
EXTENDS Integers, Sequences, FiniteSets, TLC

VARIABLES request, pc, valid_products, sorted_products, pos,
          selected_items, remaining_budget, reasoning, response, stages

vars == <<request, pc, valid_products, sorted_products, pos,
          selected_items, remaining_budget, reasoning, response, stages>>

(***************************************************************************)
(* Bounds and units of the model                                           *)
(***************************************************************************)
\* longest product list of a request
MaxProducts == 3
\* money units per currency unit (amounts of half a unit are representable)
MoneyScale == 2
\* avg_daily_sales is given in halves of a unit per day
SalesDen == 2
\* adjusted demand = avg_daily_sales x multiplier, multiplier in tenths
AdjDen == SalesDen * 10

None == "None"

(***************************************************************************)
(* Exact rational arithmetic on pairs <<num, den>>, num >= 0, den > 0      *)
(***************************************************************************)
RECURSIVE GCD(_, _)
GCD(a, b) == IF b = 0 THEN a ELSE GCD(b, a % b)

Rat(n, d) == LET g == GCD(n, d) IN <<n \div g, d \div g>>

RAdd(x, y) == Rat(x[1] * y[2] + y[1] * x[2], x[2] * y[2])

RMul(x, y) == LET a == Rat(x[1], y[2])
                  b == Rat(y[1], x[2])
              IN  <<a[1] * b[1], a[2] * b[2]>>

\* x / y for y > 0
RDiv(x, y) == RMul(x, <<y[2], y[1]>>)

RLt(x, y) == x[1] * y[2] < y[1] * x[2]

RLe(x, y) == x[1] * y[2] <= y[1] * x[2]

RZero == <<0, 1>>

Max(a, b) == IF a >= b THEN a ELSE b

Min(a, b) == IF a <= b THEN a ELSE b

RECURSIVE SumSeq(_)
SumSeq(s) == IF s = <<>> THEN 0 ELSE Head(s) + SumSeq(Tail(s))

RECURSIVE RSumSeq(_)
RSumSeq(s) == IF s = <<>> THEN RZero ELSE RAdd(Head(s), RSumSeq(Tail(s)))

RECURSIVE RMaxSeq(_)
RMaxSeq(s) == IF Len(s) = 1 THEN s[1]
              ELSE LET m == RMaxSeq(Tail(s))
                   IN  IF RLt(s[1], m) THEN m ELSE s[1]

(***************************************************************************)
(* ProductInput (restock_schema.py): price > 0, cost > 0, stock >= 0,      *)
(* avg_daily_sales >= 0, min_order_qty >= 1, max_order_qty None or >= 1.   *)
(* The schema has no validator relating max_order_qty to min_order_qty.    *)
(***************************************************************************)
\* max_order_qty None is written 0 (the code tests its truth value; the schema
\* admits no integer below 1)
Product(id, price, cost, stock, sales, minq, maxq) ==
    [product_id |-> id, price |-> price, cost |-> cost, stock |-> stock,
     avg_daily_sales |-> sales, min_order_qty |-> minq, max_order_qty |-> maxq]

Catalog ==
    { \* price 100, cost 60, stock 5, 2.5/day
      Product(1, 100 * MoneyScale, 60 * MoneyScale, 5, 5, 1, 0),
      \* out of stock, 50/day
      Product(2, 10 * MoneyScale, 5 * MoneyScale, 0, 100, 1, 0),
      \* cost = price, out of stock, 2.5/day
      Product(3, 5 * MoneyScale, 5 * MoneyScale, 0, 5, 1, 0),
      \* no sales
      Product(4, 4 * MoneyScale, 2 * MoneyScale, 3, 0, 1, 0),
      \* out of stock, 0.5/day, maximum order below the minimum order
      Product(5, 3 * MoneyScale, 2 * MoneyScale, 0, 1, 5, 2),
      \* cheaper than one currency unit, one day of stock at 1/day
      Product(6, 2, 1, 1, 2, 1, 0),
      \* 2 in stock at 3/day, order between 3 and 4
      Product(7, 8 * MoneyScale, 4 * MoneyScale, 2, 6, 3, 4),
      \* cost > price, 20 in stock at 2.5/day
      Product(8, 4 * MoneyScale, 6 * MoneyScale, 20, 5, 1, 0),
      \* 12 days of stock at 2.5/day, orders of at least 6
      Product(9, 6 * MoneyScale, 3 * MoneyScale, 30, 5, 6, 0) }

ById(id) == CHOOSE p \in Catalog : p.product_id = id

\* the ascending sequence of the elements of a set of integers
RECURSIVE SetToSeq(_)
SetToSeq(S) == IF S = {} THEN <<>>
               ELSE LET m == CHOOSE x \in S : \A y \in S : x <= y
                    IN  <<m>> \o SetToSeq(S \ {m})

Reverse(s) == [i \in 1..Len(s) |-> s[Len(s) + 1 - i]]

\* product lists: 1..MaxProducts distinct catalog products, in catalog order
\* or in reverse catalog order
ProductLists ==
    LET ids == {p.product_id : p \in Catalog}
        InOrder(S) == LET q == SetToSeq(S) IN [i \in 1..Len(q) |-> ById(q[i])]
        asc == {InOrder(S) :
                  S \in {T \in SUBSET ids : Cardinality(T) \in 1..MaxProducts}}
    IN  asc \cup {Reverse(s) : s \in asc}

BudgetChoices == {1, 4 * MoneyScale, 60 * MoneyScale, 50000 * MoneyScale}

GoalChoices == {"profit", "volume", "balanced"}

RestockDaysChoices == {1, 14}

HolidayChoices == {None, "Christmas", "easter"}

(***************************************************************************)
(* apply_context_multipliers                                               *)
(***************************************************************************)
\* str.lower() on the labels of HolidayChoices
Lower(s) == CASE s = "Christmas" -> "christmas"
              [] OTHER -> s

RecognizedHolidays == {"11.11", "christmas", "black friday", "new year", "valentine"}

\* ContextMultiplier adding the two increases (+20%, +50%) instead of compounding
ContextMultiplier_Additive(is_payday, upcoming_holiday) ==
    LET m_payday == IF is_payday THEN 2 ELSE 0
        m_holiday == IF upcoming_holiday # None
                        /\ Lower(upcoming_holiday) \in RecognizedHolidays
                     THEN 5 ELSE 0
    IN  10 + m_payday + m_holiday

\* the product of the applied multipliers, in tenths: 10, 12, 15 or 18
ContextMultiplier(is_payday, upcoming_holiday) ==
    LET m_payday == IF is_payday THEN 12 ELSE 10
        m_holiday == IF upcoming_holiday # None
                        /\ Lower(upcoming_holiday) \in RecognizedHolidays
                     THEN 15 ELSE 10
    IN  (m_payday * m_holiday) \div 10

\* adjusted demand in units of 1/AdjDen per day
apply_context_multipliers(base_demand, is_payday, upcoming_holiday) ==
    base_demand * ContextMultiplier(is_payday, upcoming_holiday)

(***************************************************************************)
(* Scoring: urgency, needed quantity, emergency quantity                   *)
(***************************************************************************)
\* Python int() of n/d, d > 0: truncation towards zero
PyInt(n, d) == IF n >= 0 THEN n \div d ELSE -((-n) \div d)

\* p.stock / daily_demand if daily_demand > 0 else 999
CurrentDaysOfStock(p, daily_demand) ==
    IF daily_demand > 0 THEN Rat(p.stock * AdjDen, daily_demand) ELSE <<999, 1>>

\* Urgency without the tier of less than one day
Urgency_NoVeryCriticalTier(current_days_of_stock, restock_days) ==
    IF RLt(current_days_of_stock, <<1, 2>>) THEN <<10, 1>>
    ELSE IF RLt(current_days_of_stock, <<2, 1>>) THEN <<5, 1>>
    ELSE IF RLt(current_days_of_stock, <<3, 1>>) THEN <<3, 1>>
    ELSE IF RLt(current_days_of_stock, <<7, 1>>) THEN <<2, 1>>
    ELSE IF RLt(current_days_of_stock, <<restock_days, 1>>) THEN <<3, 2>>
    ELSE <<1, 1>>

Urgency(current_days_of_stock, restock_days) ==
    IF RLt(current_days_of_stock, <<1, 2>>) THEN <<10, 1>>
    ELSE IF RLt(current_days_of_stock, <<1, 1>>) THEN <<8, 1>>
    ELSE IF RLt(current_days_of_stock, <<2, 1>>) THEN <<5, 1>>
    ELSE IF RLt(current_days_of_stock, <<3, 1>>) THEN <<3, 1>>
    ELSE IF RLt(current_days_of_stock, <<7, 1>>) THEN <<2, 1>>
    ELSE IF RLt(current_days_of_stock, <<restock_days, 1>>) THEN <<3, 2>>
    ELSE <<1, 1>>

StockoutPenalty(current_days_of_stock, restock_days) ==
    IF RLt(current_days_of_stock, <<1, 2>>) THEN <<1, 1>>
    ELSE IF RLt(current_days_of_stock, <<1, 1>>) THEN <<9, 10>>
    ELSE IF RLt(current_days_of_stock, <<2, 1>>) THEN <<7, 10>>
    ELSE IF RLt(current_days_of_stock, <<3, 1>>) THEN <<1, 2>>
    ELSE IF RLt(current_days_of_stock, <<7, 1>>) THEN <<1, 5>>
    ELSE IF RLt(current_days_of_stock, <<restock_days, 1>>) THEN <<1, 10>>
    ELSE <<0, 1>>

\* `if p.max_order_qty:`
HasMax(p) == p.max_order_qty > 0

\* unit_profit = max(0.0, p.price - p.cost), in money units
UnitProfit(p) == Max(0, p.price - p.cost)

\* unit_profit * daily_demand * urgency, in currency units per day
ProfitScore(p, daily_demand, urgency) ==
    RMul(RMul(Rat(UnitProfit(p), MoneyScale), Rat(daily_demand, AdjDen)), urgency)

\* (daily_demand / p.cost if p.cost > 0 else 0) * urgency
VolumeScore(p, daily_demand, urgency) ==
    RMul(IF p.cost > 0 THEN Rat(daily_demand * MoneyScale, AdjDen * p.cost)
         ELSE RZero, urgency)

\* NeededQty that does not raise a positive quantity to min_order_qty
NeededQty_NoMinRaise(p, daily_demand, restock_days) ==
    LET needed_qty == Max(0, PyInt(daily_demand * restock_days - p.stock * AdjDen, AdjDen))
    IN  IF needed_qty > 0
        THEN (IF HasMax(p) THEN Min(needed_qty, p.max_order_qty) ELSE needed_qty)
        ELSE needed_qty

\* NeededQty that raises every quantity, 0 included, to min_order_qty
NeededQty_RaisesZero(p, daily_demand, restock_days) ==
    LET needed_qty == Max(0, PyInt(daily_demand * restock_days - p.stock * AdjDen, AdjDen))
        raised == Max(needed_qty, p.min_order_qty)
    IN  IF HasMax(p) THEN Min(raised, p.max_order_qty) ELSE raised

\* the full-cycle quantity with the min/max order quantities applied
NeededQty(p, daily_demand, restock_days) ==
    LET needed_qty == Max(0, PyInt(daily_demand * restock_days - p.stock * AdjDen, AdjDen))
        raised == Max(needed_qty, p.min_order_qty)
    IN  IF needed_qty > 0
        THEN (IF HasMax(p) THEN Min(raised, p.max_order_qty) ELSE raised)
        ELSE needed_qty

\* EmergencyDays without the shorter horizons of fast-moving products
EmergencyDays_AlwaysFive(daily_demand) == 5

EmergencyDays(daily_demand) ==
    IF daily_demand > 40 * AdjDen THEN 2
    ELSE IF daily_demand > 20 * AdjDen THEN 3
    ELSE 5

\* EmergencyQty without the max_order_qty cap
EmergencyQty_NoMaxCap(p, daily_demand) ==
    LET emergency_qty == Max(0, PyInt(daily_demand * EmergencyDays(daily_demand)
                                        - p.stock * AdjDen, AdjDen))
    IN  IF emergency_qty > 0 THEN Max(emergency_qty, p.min_order_qty)
        ELSE p.min_order_qty

EmergencyQty(p, daily_demand) ==
    LET emergency_qty == Max(0, PyInt(daily_demand * EmergencyDays(daily_demand)
                                      - p.stock * AdjDen, AdjDen))
        raised == IF emergency_qty > 0 THEN Max(emergency_qty, p.min_order_qty)
                  ELSE p.min_order_qty
    IN  IF HasMax(p) THEN Min(raised, p.max_order_qty) ELSE raised

\* one entry of scored_products before the critical/non-critical split
ScoredItem(p, score, profit_score, volume_score, penalty, qty, urgency, cds) ==
    [product |-> p, score |-> score, profit_score |-> profit_score,
     volume_score |-> volume_score, stockout_penalty |-> penalty,
     qty |-> qty, urgency |-> urgency, unit_profit |-> UnitProfit(p),
     current_days_of_stock |-> cds,
     has_emergency |-> FALSE, emergency_qty |-> 0, emergency_cost |-> 0,
     efficiency |-> RZero]

\* the per-product part of the three scoring loops; score is filled with the
\* goal's own score (the hybrid score is set afterwards for balanced)
ScoreProduct(p, goal, restock_days, is_payday, upcoming_holiday) ==
    LET daily_demand == apply_context_multipliers(p.avg_daily_sales, is_payday,
                                                  upcoming_holiday)
        cds == CurrentDaysOfStock(p, daily_demand)
        urgency == Urgency(cds, restock_days)
        profit_score == ProfitScore(p, daily_demand, urgency)
        volume_score == VolumeScore(p, daily_demand, urgency)
    IN  ScoredItem(p, IF goal = "volume" THEN volume_score ELSE profit_score,
                   profit_score, volume_score,
                   StockoutPenalty(cds, restock_days),
                   NeededQty(p, daily_demand, restock_days), urgency, cds)

NeedsRestock(item) == item.qty > 0

\* balanced_strategy: normalisation by the maxima over all products passed in
HybridScore(item, max_profit, max_volume) ==
    LET norm_profit == IF RLt(RZero, max_profit)
                       THEN RDiv(item.profit_score, max_profit) ELSE RZero
        norm_volume == IF RLt(RZero, max_volume)
                       THEN RDiv(item.volume_score, max_volume) ELSE RZero
        base_score == RAdd(RMul(norm_profit, <<1, 2>>), RMul(norm_volume, <<1, 2>>))
    IN  RAdd(base_score, RMul(item.stockout_penalty, <<1, 2>>))

\* ScoredProducts with the balanced maxima taken over the kept candidates only
ScoredProducts_MaxOverKept(products, goal, restock_days, is_payday, upcoming_holiday) ==
    LET all == [i \in 1..Len(products) |->
                  ScoreProduct(products[i], goal, restock_days, is_payday,
                               upcoming_holiday)]
        kept == SelectSeq(all, NeedsRestock)
        max_profit == IF Len(kept) > 0
                      THEN RMaxSeq([i \in 1..Len(kept) |-> kept[i].profit_score])
                      ELSE <<1, 1>>
        max_volume == IF Len(kept) > 0
                      THEN RMaxSeq([i \in 1..Len(kept) |-> kept[i].volume_score])
                      ELSE <<1, 1>>
    IN  IF goal = "balanced"
        THEN [i \in 1..Len(kept) |->
                [kept[i] EXCEPT !.score = HybridScore(kept[i], max_profit, max_volume)]]
        ELSE kept

\* scored_products of the goal, in input order
ScoredProducts(products, goal, restock_days, is_payday, upcoming_holiday) ==
    LET all == [i \in 1..Len(products) |->
                  ScoreProduct(products[i], goal, restock_days, is_payday,
                               upcoming_holiday)]
        kept == SelectSeq(all, NeedsRestock)
        max_profit == IF Len(all) > 0
                      THEN RMaxSeq([i \in 1..Len(all) |-> all[i].profit_score])
                      ELSE <<1, 1>>
        max_volume == IF Len(all) > 0
                      THEN RMaxSeq([i \in 1..Len(all) |-> all[i].volume_score])
                      ELSE <<1, 1>>
    IN  IF goal = "balanced"
        THEN [i \in 1..Len(kept) |->
                [kept[i] EXCEPT !.score = HybridScore(kept[i], max_profit, max_volume)]]
        ELSE kept

IsCritical(item) == RLt(item.current_days_of_stock, <<1, 1>>)

IsNotCritical(item) == ~IsCritical(item)

\* the emergency fields set on a critical item
WithEmergency(item, is_payday, upcoming_holiday) ==
    LET p == item.product
        daily_demand == apply_context_multipliers(p.avg_daily_sales, is_payday,
                                                  upcoming_holiday)
        emergency_qty == EmergencyQty(p, daily_demand)
        emergency_cost == p.cost * emergency_qty
    IN  [item EXCEPT !.has_emergency = TRUE,
                     !.emergency_qty = emergency_qty,
                     !.emergency_cost = emergency_cost,
                     !.efficiency = IF emergency_cost > 0
                                    THEN RDiv(item.score, Rat(emergency_cost, MoneyScale))
                                    ELSE RZero]

\* list.sort(key=..., reverse=True) on pairs <<key, item>>: descending and
\* stable (equal keys keep their order)
RECURSIVE InsertDesc(_, _)
InsertDesc(sorted, x) ==
    IF sorted = <<>> THEN <<x>>
    ELSE IF RLt(Head(sorted)[1], x[1]) THEN <<x>> \o sorted
    ELSE <<Head(sorted)>> \o InsertDesc(Tail(sorted), x)

RECURSIVE SortDesc(_)
SortDesc(s) ==
    IF s = <<>> THEN <<>>
    ELSE InsertDesc(SortDesc(SubSeq(s, 1, Len(s) - 1)), s[Len(s)])

\* SortedProducts with one sort of all candidates by score
SortedProducts_OneSort(scored_products, is_payday, upcoming_holiday) ==
    LET items == [i \in 1..Len(scored_products) |->
                    IF IsCritical(scored_products[i])
                    THEN WithEmergency(scored_products[i], is_payday, upcoming_holiday)
                    ELSE scored_products[i]]
        byScore == SortDesc([i \in 1..Len(items) |-> <<items[i].score, items[i]>>])
    IN  [i \in 1..Len(byScore) |-> byScore[i][2]]

\* SortedProducts with the critical candidates sorted by score instead of
\* efficiency
SortedProducts_CriticalByScore(scored_products, is_payday, upcoming_holiday) ==
    LET crit == SelectSeq(scored_products, IsCritical)
        critical_items == [i \in 1..Len(crit) |->
                             WithEmergency(crit[i], is_payday, upcoming_holiday)]
        non_critical_items == SelectSeq(scored_products, IsNotCritical)
        byEff == SortDesc([i \in 1..Len(critical_items) |->
                             <<critical_items[i].score, critical_items[i]>>])
        byScore == SortDesc([i \in 1..Len(non_critical_items) |->
                               <<non_critical_items[i].score, non_critical_items[i]>>])
    IN  [i \in 1..Len(byEff) |-> byEff[i][2]] \o [i \in 1..Len(byScore) |-> byScore[i][2]]

\* critical_items + non_critical_items after the two sorts
SortedProducts(scored_products, is_payday, upcoming_holiday) ==
    LET crit == SelectSeq(scored_products, IsCritical)
        critical_items == [i \in 1..Len(crit) |->
                             WithEmergency(crit[i], is_payday, upcoming_holiday)]
        non_critical_items == SelectSeq(scored_products, IsNotCritical)
        byEff == SortDesc([i \in 1..Len(critical_items) |->
                             <<critical_items[i].efficiency, critical_items[i]>>])
        byScore == SortDesc([i \in 1..Len(non_critical_items) |->
                               <<non_critical_items[i].score, non_critical_items[i]>>])
    IN  [i \in 1..Len(byEff) |-> byEff[i][2]] \o [i \in 1..Len(byScore) |-> byScore[i][2]]

(***************************************************************************)
(* Messages, items, totals                                                 *)
(***************************************************************************)
\* one reasoning or warning string: its kind and the values formatted into it
Msg(kind, id, x, y, label) ==
    [kind |-> kind, id |-> id, x |-> x, y |-> y, label |-> label]

\* RestockItem with the profit of one unit as expected_profit
RestockItem_UnitProfit(item, qty, total_cost) ==
    LET p == item.product
    IN  [product_id |-> p.product_id,
         qty |-> qty,
         unit_cost |-> p.cost,
         total_cost |-> total_cost,
         expected_profit |-> Max(0, item.unit_profit),
         expected_revenue |-> qty * p.price,
         days_of_stock |-> IF p.avg_daily_sales > 0
                           THEN Rat(qty * SalesDen, p.avg_daily_sales)
                           ELSE <<999, 1>>,
         priority_score |-> item.score]

\* RestockItem
RestockItem(item, qty, total_cost) ==
    LET p == item.product
    IN  [product_id |-> p.product_id,
         qty |-> qty,
         unit_cost |-> p.cost,
         total_cost |-> total_cost,
         expected_profit |-> Max(0, qty * item.unit_profit),
         expected_revenue |-> qty * p.price,
         days_of_stock |-> IF p.avg_daily_sales > 0
                           THEN Rat(qty * SalesDen, p.avg_daily_sales)
                           ELSE <<999, 1>>,
         priority_score |-> item.score]

ZeroTotals ==
    [total_items |-> 0, total_qty |-> 0, total_cost |-> 0,
     budget_used_pct |-> RZero, expected_revenue |-> 0, expected_profit |-> 0,
     expected_roi |-> RZero, avg_days_of_stock |-> RZero]

\* compute_totals with the return on investment taken on the revenue
compute_totals_RoiOnRevenue(items, budget) ==
    LET total_items == Len(items)
        total_qty == SumSeq([i \in 1..Len(items) |-> items[i].qty])
        total_cost == SumSeq([i \in 1..Len(items) |-> items[i].total_cost])
        expected_revenue == SumSeq([i \in 1..Len(items) |-> items[i].expected_revenue])
        expected_profit ==
            Max(0, SumSeq([i \in 1..Len(items) |-> items[i].expected_profit]))
    IN  [total_items |-> total_items,
         total_qty |-> total_qty,
         total_cost |-> total_cost,
         budget_used_pct |-> IF budget > 0 THEN Rat(total_cost * 100, budget)
                             ELSE RZero,
         expected_revenue |-> expected_revenue,
         expected_profit |-> expected_profit,
         expected_roi |-> IF total_cost > 0 THEN Rat(expected_revenue * 100, total_cost)
                          ELSE RZero,
         avg_days_of_stock |->
             IF total_items > 0
             THEN RDiv(RSumSeq([i \in 1..Len(items) |-> items[i].days_of_stock]),
                       <<total_items, 1>>)
             ELSE RZero]

compute_totals(items, budget) ==
    LET total_items == Len(items)
        total_qty == SumSeq([i \in 1..Len(items) |-> items[i].qty])
        total_cost == SumSeq([i \in 1..Len(items) |-> items[i].total_cost])
        expected_revenue == SumSeq([i \in 1..Len(items) |-> items[i].expected_revenue])
        expected_profit ==
            Max(0, SumSeq([i \in 1..Len(items) |-> items[i].expected_profit]))
    IN  [total_items |-> total_items,
         total_qty |-> total_qty,
         total_cost |-> total_cost,
         budget_used_pct |-> IF budget > 0 THEN Rat(total_cost * 100, budget)
                             ELSE RZero,
         expected_revenue |-> expected_revenue,
         expected_profit |-> expected_profit,
         expected_roi |-> IF total_cost > 0 THEN Rat(expected_profit * 100, total_cost)
                          ELSE RZero,
         avg_days_of_stock |->
             IF total_items > 0
             THEN RDiv(RSumSeq([i \in 1..Len(items) |-> items[i].days_of_stock]),
                       <<total_items, 1>>)
             ELSE RZero]

(***************************************************************************)
(* generate_warnings                                                       *)
(***************************************************************************)
\* list.sort(key=...) on pairs <<key, value>>: ascending and stable
RECURSIVE InsertAsc(_, _)
InsertAsc(sorted, x) ==
    IF sorted = <<>> THEN <<x>>
    ELSE IF RLt(x[1], Head(sorted)[1]) THEN <<x>> \o sorted
    ELSE <<Head(sorted)>> \o InsertAsc(Tail(sorted), x)

RECURSIVE SortAsc(_)
SortAsc(s) ==
    IF s = <<>> THEN <<>>
    ELSE InsertAsc(SortAsc(SubSeq(s, 1, Len(s) - 1)), s[Len(s)])

max_individual_warnings == 10

\* days_left = p.stock / p.avg_daily_sales if p.avg_daily_sales > 0 else 999
DaysLeft(p) == IF p.avg_daily_sales > 0 THEN Rat(p.stock * SalesDen, p.avg_daily_sales)
               ELSE <<999, 1>>

\* LowStockProducts without the sort by days left
LowStockProducts_Unsorted(items, all_products) ==
    LET selected_ids == {items[i].product_id : i \in 1..Len(items)}
        IsLow(p) == /\ p.product_id \notin selected_ids
                    /\ RLt(DaysLeft(p), <<3, 1>>)
                    /\ p.avg_daily_sales > 0
        low == SelectSeq(all_products, IsLow)
    IN  [i \in 1..Len(low) |-> <<DaysLeft(low[i]), low[i].product_id>>]

\* LowStockProducts that reports only products with less than one day of stock
LowStockProducts_BelowOneDay(items, all_products) ==
    LET selected_ids == {items[i].product_id : i \in 1..Len(items)}
        IsLow(p) == /\ p.product_id \notin selected_ids
                    /\ RLt(DaysLeft(p), <<1, 1>>)
                    /\ p.avg_daily_sales > 0
        low == SelectSeq(all_products, IsLow)
    IN  SortAsc([i \in 1..Len(low) |-> <<DaysLeft(low[i]), low[i].product_id>>])

\* the pairs <<days_left, product_id>> of the products left out with less
\* than 3 days of stock, most urgent first.  Identifiers are compared by their
\* text, str(product_id); the identifiers of the model stand for distinct
\* texts, and the product's name is written as its identifier.
LowStockProducts(items, all_products) ==
    LET selected_ids == {items[i].product_id : i \in 1..Len(items)}
        IsLow(p) == /\ p.product_id \notin selected_ids
                    /\ RLt(DaysLeft(p), <<3, 1>>)
                    /\ p.avg_daily_sales > 0
        low == SelectSeq(all_products, IsLow)
    IN  SortAsc([i \in 1..Len(low) |-> <<DaysLeft(low[i]), low[i].product_id>>])

generate_warnings(items, all_products, budget, totals) ==
    LET low_stock_products == LowStockProducts(items, all_products)
        n == Len(low_stock_products)
        IsCrit(x) == RLt(x[1], <<1, 1>>)
        IsWarn(x) == RLe(<<1, 1>>, x[1]) /\ RLt(x[1], <<2, 1>>)
        IsInfo(x) == RLe(<<2, 1>>, x[1]) /\ RLt(x[1], <<3, 1>>)
        critical_items == SelectSeq(low_stock_products, IsCrit)
        warning_items == SelectSeq(low_stock_products, IsWarn)
        info_items == SelectSeq(low_stock_products, IsInfo)
        items_to_show == SubSeq(low_stock_products, 1, Min(n, max_individual_warnings))
        remaining_count == n - max_individual_warnings
    IN  (IF RLt(totals.budget_used_pct, <<50, 1>>)
         THEN <<Msg("low_budget_utilization", 0, totals.budget_used_pct[1],
                    totals.budget_used_pct[2], "")>>
         ELSE <<>>)
        \o (IF RLt(<<45, 1>>, totals.avg_days_of_stock)
            THEN <<Msg("high_days_of_stock", 0, totals.avg_days_of_stock[1],
                       totals.avg_days_of_stock[2], "")>>
            ELSE <<>>)
        \o (IF RLt(totals.avg_days_of_stock, <<7, 1>>)
            THEN <<Msg("low_days_of_stock", 0, totals.avg_days_of_stock[1],
                       totals.avg_days_of_stock[2], "")>>
            ELSE <<>>)
        \o [i \in 1..Len(items_to_show) |->
              Msg("low_stock_not_selected", items_to_show[i][2],
                  items_to_show[i][1][1], items_to_show[i][1][2], "")]
        \o (IF remaining_count > 0
            THEN <<Msg("more_low_stock", 0, remaining_count, 0, "")>>
            ELSE <<>>)
        \o (IF n > 0 /\ (Len(critical_items) > 0 \/ Len(warning_items) > 0
                           \/ Len(info_items) > 0)
            THEN <<Msg("summary", Len(critical_items), Len(warning_items),
                       Len(info_items), "")>>
            ELSE <<>>)

\* the entries every strategy puts at the head of its reasoning list
ReasoningHead(goal, budget, restock_days, is_payday, upcoming_holiday) ==
    <<Msg("strategy", 0, 0, 0, goal), Msg("budget", 0, budget, 0, ""),
      Msg("target", 0, restock_days, 0, "")>>
    \o (IF is_payday THEN <<Msg("payday", 0, 0, 0, "")>> ELSE <<>>)
    \o (IF upcoming_holiday # None /\ upcoming_holiday # ""
        THEN <<Msg("holiday", 0, 0, 0, upcoming_holiday)>> ELSE <<>>)

\* the entries every strategy appends after the scan
ReasoningTail(items, sorted) ==
    LET critical_ids == {sorted[i].product.product_id :
                           i \in {j \in 1..Len(sorted) : IsCritical(sorted[j])}}
        critical_selected ==
            Cardinality({i \in 1..Len(items) : items[i].product_id \in critical_ids})
    IN  <<IF critical_selected > 0
          THEN Msg("selected_critical", 0, Len(items), critical_selected, "")
          ELSE Msg("selected", 0, Len(items), 0, ""),
          Msg("closing", 0, 0, 0, "")>>

Response(goal, budget, items, totals, reasons, warnings, analyzed, restock_days) ==
    [strategy |-> goal, budget |-> budget, items |-> items, totals |-> totals,
     reasoning |-> reasons, warnings |-> warnings,
     meta |-> [products_analyzed |-> analyzed, products_selected |-> Len(items),
               restock_days |-> restock_days]]

Init ==
    /\ request \in [budget : BudgetChoices,
                    goal : GoalChoices,
                    products : ProductLists,
                    restock_days : RestockDaysChoices,
                    is_payday : BOOLEAN,
                    upcoming_holiday : HolidayChoices]
    /\ pc = "start"
    /\ valid_products = <<>>
    /\ sorted_products = <<>>
    /\ pos = 0
    /\ selected_items = <<>>
    /\ remaining_budget = 0
    /\ reasoning = <<>>
    /\ response = Response("", 0, <<>>, ZeroTotals, <<>>, <<>>, 0, 0)
    /\ stages = {}

\* compute_restock_strategy, the candidate filter
\* IsValidProduct without the comparison of price and cost
IsValidProduct_NoMargin(p) == p.price > 0 /\ p.cost > 0

\* IsValidProduct that lets cost = price pass
IsValidProduct_AllowsEqual(p) == p.price >= p.cost /\ p.price > 0 /\ p.cost > 0

IsValidProduct(p) == p.price > p.cost /\ p.price > 0 /\ p.cost > 0

Filter ==
    /\ pc = "start"
    /\ valid_products' = SelectSeq(request.products, IsValidProduct)
    /\ pc' = "filtered"
    /\ stages' = stages \cup {"filter"}
    /\ UNCHANGED <<request, sorted_products, pos, selected_items,
                   remaining_budget, reasoning, response>>

\* compute_restock_strategy, the early return on an empty filtered list
NoValidProducts ==
    /\ pc = "filtered"
    /\ Len(valid_products) = 0
    /\ response' = Response(request.goal, request.budget, <<>>, ZeroTotals,
                            <<Msg("no_valid_products", 0, 0, 0, "")>>,
                            <<Msg("no_products", 0, 0, 0, "")>>,
                            Len(request.products), request.restock_days)
    /\ pc' = "done"
    /\ UNCHANGED <<request, valid_products, sorted_products, pos, selected_items,
                   remaining_budget, reasoning, stages>>

\* profit_maximization / volume_maximization / balanced_strategy up to the
\* greedy loop: reasoning head, scoring, critical split, the two sorts
Score ==
    /\ pc = "filtered"
    /\ Len(valid_products) > 0
    /\ reasoning' = ReasoningHead(request.goal, request.budget, request.restock_days,
                                  request.is_payday, request.upcoming_holiday)
    /\ sorted_products' =
           SortedProducts(ScoredProducts(valid_products, request.goal,
                                         request.restock_days, request.is_payday,
                                         request.upcoming_holiday),
                          request.is_payday, request.upcoming_holiday)
    /\ selected_items' = <<>>
    /\ remaining_budget' = request.budget
    /\ pos' = 1
    /\ pc' = IF Len(sorted_products') = 0 THEN "complete" ELSE "scan"
    /\ stages' = stages \cup {"scoring"}
    /\ UNCHANGED <<request, valid_products, response>>

\* the quantity and cost the loop body settles on for one candidate; skip is
\* the `continue` of an unaffordable minimum order
\* Attempt with critical items bought like the others, at the full-cycle quantity
Attempt_FullCycle(item, remaining) ==
    LET p == item.product
        affordable_qty == remaining \div p.cost
    IN  IF p.cost * item.qty > remaining
        THEN [skip |-> affordable_qty < p.min_order_qty,
              qty |-> affordable_qty,
              total_cost |-> p.cost * affordable_qty]
        ELSE [skip |-> FALSE, qty |-> item.qty, total_cost |-> p.cost * item.qty]

\* Attempt that skips a critical candidate whose emergency cost is not affordable
Attempt_NoPartialEmergency(item, remaining) ==
    LET p == item.product
        affordable_qty == remaining \div p.cost
    IN  IF item.has_emergency /\ item.emergency_qty > 0
        THEN [skip |-> item.emergency_cost > remaining, qty |-> item.emergency_qty,
              total_cost |-> item.emergency_cost]
        ELSE IF p.cost * item.qty > remaining
             THEN [skip |-> affordable_qty < p.min_order_qty,
                   qty |-> affordable_qty,
                   total_cost |-> p.cost * affordable_qty]
             ELSE [skip |-> FALSE, qty |-> item.qty, total_cost |-> p.cost * item.qty]

\* Attempt that buys the full-cycle quantity of a critical candidate whenever
\* the remaining budget pays for it
Attempt_FullWhenAffordable(item, remaining) ==
    LET p == item.product
        affordable_qty == remaining \div p.cost
    IN  IF item.has_emergency /\ item.emergency_qty > 0 /\ p.cost * item.qty > remaining
        THEN IF item.emergency_cost > remaining
             THEN [skip |-> affordable_qty < p.min_order_qty,
                   qty |-> Min(affordable_qty, item.emergency_qty),
                   total_cost |-> p.cost * Min(affordable_qty, item.emergency_qty)]
             ELSE [skip |-> FALSE, qty |-> item.emergency_qty,
                   total_cost |-> item.emergency_cost]
        ELSE IF p.cost * item.qty > remaining
             THEN [skip |-> affordable_qty < p.min_order_qty,
                   qty |-> affordable_qty,
                   total_cost |-> p.cost * affordable_qty]
             ELSE [skip |-> FALSE, qty |-> item.qty, total_cost |-> p.cost * item.qty]

Attempt(item, remaining) ==
    LET p == item.product
        affordable_qty == remaining \div p.cost
    IN  IF item.has_emergency /\ item.emergency_qty > 0
        THEN IF item.emergency_cost > remaining
             THEN [skip |-> affordable_qty < p.min_order_qty,
                   qty |-> Min(affordable_qty, item.emergency_qty),
                   total_cost |-> p.cost * Min(affordable_qty, item.emergency_qty)]
             ELSE [skip |-> FALSE, qty |-> item.emergency_qty,
                   total_cost |-> item.emergency_cost]
        ELSE IF p.cost * item.qty > remaining
             THEN [skip |-> affordable_qty < p.min_order_qty,
                   qty |-> affordable_qty,
                   total_cost |-> p.cost * affordable_qty]
             ELSE [skip |-> FALSE, qty |-> item.qty, total_cost |-> p.cost * item.qty]

\* the guard of the commit block
Commits(att, remaining) ==
    ~att.skip /\ att.qty > 0 /\ att.total_cost <= remaining

\* one iteration of the greedy loop that commits nothing
ScanSkip ==
    /\ pc = "scan"
    /\ ~Commits(Attempt(sorted_products[pos], remaining_budget), remaining_budget)
    /\ pos' = pos + 1
    /\ pc' = IF pos' > Len(sorted_products) THEN "complete" ELSE "scan"
    /\ stages' = stages \cup {"allocation"}
    /\ UNCHANGED <<request, valid_products, sorted_products, selected_items,
                   remaining_budget, reasoning, response>>

\* ScanCommit deducting the unit cost instead of the total cost
ScanCommit_DeductUnitCost ==
    /\ pc = "scan"
    /\ LET item == sorted_products[pos]
           att == Attempt(item, remaining_budget)
       IN  /\ Commits(att, remaining_budget)
           /\ selected_items' = Append(selected_items,
                                       RestockItem(item, att.qty, att.total_cost))
           /\ remaining_budget' = remaining_budget - item.product.cost
    /\ pos' = pos + 1
    /\ pc' = IF remaining_budget' < MoneyScale THEN "exhausted"
             ELSE IF pos' > Len(sorted_products) THEN "complete"
             ELSE "scan"
    /\ stages' = stages \cup {"allocation"}
    /\ UNCHANGED <<request, valid_products, sorted_products, reasoning, response>>

\* ScanCommit without the break on an exhausted budget
ScanCommit_NoBreak ==
    /\ pc = "scan"
    /\ LET item == sorted_products[pos]
           att == Attempt(item, remaining_budget)
       IN  /\ Commits(att, remaining_budget)
           /\ selected_items' = Append(selected_items,
                                       RestockItem(item, att.qty, att.total_cost))
           /\ remaining_budget' = remaining_budget - att.total_cost
    /\ pos' = pos + 1
    /\ pc' = IF pos' > Len(sorted_products) THEN "complete" ELSE "scan"
    /\ stages' = stages \cup {"allocation"}
    /\ UNCHANGED <<request, valid_products, sorted_products, reasoning, response>>

\* one iteration of the greedy loop that commits the candidate
ScanCommit ==
    /\ pc = "scan"
    /\ LET item == sorted_products[pos]
           att == Attempt(item, remaining_budget)
       IN  /\ Commits(att, remaining_budget)
           /\ selected_items' = Append(selected_items,
                                       RestockItem(item, att.qty, att.total_cost))
           /\ remaining_budget' = remaining_budget - att.total_cost
    /\ pos' = pos + 1
    /\ pc' = IF remaining_budget' < MoneyScale THEN "exhausted"
             ELSE IF pos' > Len(sorted_products) THEN "complete"
             ELSE "scan"
    /\ stages' = stages \cup {"allocation"}
    /\ UNCHANGED <<request, valid_products, sorted_products, reasoning, response>>

\* ExclusionNote reporting the number of products kept
ExclusionNote_CountsKept(products, valid) ==
    IF Len(valid) < Len(products)
    THEN <<Msg("excluded", 0, Len(valid), 0, "")>>
    ELSE <<>>

\* the warning appended when products were filtered out
ExclusionNote(products, valid) ==
    LET filtered_count == Len(products) - Len(valid)
    IN  IF Len(valid) < Len(products)
        THEN <<Msg("excluded", 0, filtered_count, 0, "")>>
        ELSE <<>>

\* the rest of the strategy function and of compute_restock_strategy: closing
\* reasoning, totals, warnings, exclusion note, response
Respond ==
    /\ pc \in {"exhausted", "complete"}
    /\ reasoning' = reasoning \o ReasoningTail(selected_items, sorted_products)
    /\ LET totals == compute_totals(selected_items, request.budget)
           warnings == generate_warnings(selected_items, request.products,
                                         request.budget, totals)
       IN  response' =
               Response(request.goal, request.budget, selected_items, totals,
                        reasoning',
                        warnings \o ExclusionNote(request.products, valid_products),
                        Len(request.products), request.restock_days)
    /\ pc' = "done"
    /\ stages' = stages \cup {"totals", "diagnostics"}
    /\ UNCHANGED <<request, valid_products, sorted_products, pos, selected_items,
                   remaining_budget>>

Next ==
    \/ Filter
    \/ NoValidProducts
    \/ Score
    \/ ScanSkip
    \/ ScanCommit
    \/ Respond

Spec == Init /\ [][Next]_vars

(***************************************************************************)
(* The same run on long product lists (the diagnostics cap the individual  *)
(* low-stock warnings at max_individual_warnings)                          *)
(***************************************************************************)
\* longest product list of a request of SpecLarge
MaxLargeProducts == 13

\* stock and avg_daily_sales (in units of 1/SalesDen) of the products 101..118:
\* eleven with less than a day of stock, then 1, 1.5, 2, 2.5 and 3 days, one
\* without sales and one out of stock that is sold at its cost
LargeStock == <<0, 1, 0, 1, 0, 1, 2, 3, 0, 2, 1, 2, 3, 4, 5, 6, 0, 0>>

LargeSales == <<4, 4, 2, 6, 6, 8, 8, 8, 8, 6, 3, 4, 4, 4, 4, 4, 0, 4>>

\* product 100 + i: cost 1; price 2, 3 or 4, but price 1 = cost for product 118
LargeProduct(i) ==
    Product(100 + i,
            IF i = 18 THEN MoneyScale ELSE (2 + (i % 3)) * MoneyScale,
            MoneyScale, LargeStock[i], LargeSales[i], 1, 0)

\* the product lists: up to MaxLargeProducts consecutive products of the
\* cycle 101, ..., 118, 101, ...
LargeProductLists ==
    LET N == Len(LargeStock)
    IN  {[k \in 1..len |-> LargeProduct(((start + k - 2) % N) + 1)] :
            start \in 1..N, len \in 1..Min(MaxLargeProducts, N)}

LargeBudgetChoices == {1, 3 * MoneyScale, 20 * MoneyScale, 50000 * MoneyScale}

InitLarge ==
    /\ request \in [budget : LargeBudgetChoices,
                    goal : GoalChoices,
                    products : LargeProductLists,
                    restock_days : {14},
                    is_payday : BOOLEAN,
                    upcoming_holiday : {None}]
    /\ pc = "start"
    /\ valid_products = <<>>
    /\ sorted_products = <<>>
    /\ pos = 0
    /\ selected_items = <<>>
    /\ remaining_budget = 0
    /\ reasoning = <<>>
    /\ response = Response("", 0, <<>>, ZeroTotals, <<>>, <<>>, 0, 0)
    /\ stages = {}

SpecLarge == InitLarge /\ [][Next]_vars

(***************************************************************************)
(* The same run on fast-moving products (the emergency horizon depends on  *)
(* the adjusted demand: 2 days above 40/day, 3 days above 20/day, else 5)  *)
(***************************************************************************)
FastCatalog ==
    { \* 30/day (36, 45 and 54 with the context multipliers), a third of a day of stock
      Product(201, 4 * MoneyScale, 2 * MoneyScale, 10, 30 * SalesDen, 1, 0),
      \* exactly 20/day (24, 30 and 36), three quarters of a day of stock
      Product(202, 3 * MoneyScale, 1 * MoneyScale, 15, 20 * SalesDen, 1, 0),
      \* exactly 40/day (48, 60 and 72), three quarters of a day, orders of at most 100
      Product(203, 5 * MoneyScale, 3 * MoneyScale, 30, 40 * SalesDen, 1, 100),
      \* 30/day with more than three days of stock
      Product(204, 4 * MoneyScale, 2 * MoneyScale, 100, 30 * SalesDen, 1, 0),
      \* cost = price, out of stock at 50/day
      Product(205, 2 * MoneyScale, 2 * MoneyScale, 0, 50 * SalesDen, 1, 0) }

\* product lists: 1..MaxProducts distinct products of FastCatalog, by id
FastProductLists ==
    LET ids == {p.product_id : p \in FastCatalog}
        FastById(id) == CHOOSE p \in FastCatalog : p.product_id = id
    IN  {[i \in 1..Cardinality(S) |-> FastById(SetToSeq(S)[i])] :
            S \in {T \in SUBSET ids : Cardinality(T) \in 1..MaxProducts}}

InitFast ==
    /\ request \in [budget : BudgetChoices,
                    goal : GoalChoices,
                    products : FastProductLists,
                    restock_days : RestockDaysChoices,
                    is_payday : BOOLEAN,
                    upcoming_holiday : HolidayChoices]
    /\ pc = "start"
    /\ valid_products = <<>>
    /\ sorted_products = <<>>
    /\ pos = 0
    /\ selected_items = <<>>
    /\ remaining_budget = 0
    /\ reasoning = <<>>
    /\ response = Response("", 0, <<>>, ZeroTotals, <<>>, <<>>, 0, 0)
    /\ stages = {}

SpecFast == InitFast /\ [][Next]_vars

\* the interpreter moving on to the next statement of a request that has not
\* returned: every action of Next moves the control point <<pc, pos>>, and one
\* of them is enabled in every state but the returned ones
Advance ==
    /\ pc # "done"
    /\ pc' \in {"filtered", "scan", "exhausted", "complete", "done"}
    /\ pos' \in 0..(Len(request.products) + 1)

\* the run as the interpreter executes it: a started request is carried
\* through every statement up to its return
SpecFair == InitFast /\ [][Next]_vars /\ WF_<<pc, pos>>(Advance)

(***************************************************************************)
(* The same run in the arithmetic of the interpreter: every price, cost,   *)
(* budget, demand, score and total of the code is a Python float, an       *)
(* IEEE-754 binary64 value, and every +, -, *, / rounds its exact result   *)
(* to the nearest such value (ties to even).  The definitions below        *)
(* compute these roundings exactly, on mantissas held as multi-limb        *)
(* naturals.                                                               *)
(***************************************************************************)
\* natural numbers as little-endian sequences of limbs below LimbBase, without
\* leading zero limbs (zero is the empty sequence)
LimbBits == 15

LimbBase == 32768

RECURSIVE Pow2(_)
Pow2(k) == IF k = 0 THEN 1 ELSE 2 * Pow2(k - 1)

RECURSIVE NTrim(_)
NTrim(a) == IF a # <<>> /\ a[Len(a)] = 0 THEN NTrim(SubSeq(a, 1, Len(a) - 1)) ELSE a

RECURSIVE NFromInt(_)
NFromInt(n) == IF n = 0 THEN <<>> ELSE <<n % LimbBase>> \o NFromInt(n \div LimbBase)

RECURSIVE NToInt(_)
NToInt(a) == IF a = <<>> THEN 0 ELSE a[1] + LimbBase * NToInt(Tail(a))

RECURSIVE NAddC(_, _, _)
NAddC(a, b, carry) ==
    IF a = <<>> /\ b = <<>> THEN (IF carry = 0 THEN <<>> ELSE <<carry>>)
    ELSE LET x == IF a = <<>> THEN 0 ELSE a[1]
             y == IF b = <<>> THEN 0 ELSE b[1]
             t == x + y + carry
         IN  <<t % LimbBase>>
             \o NAddC(IF a = <<>> THEN a ELSE Tail(a),
                      IF b = <<>> THEN b ELSE Tail(b), t \div LimbBase)

NAdd(a, b) == NAddC(a, b, 0)

\* a - b for a >= b
RECURSIVE NSubB(_, _, _)
NSubB(a, b, borrow) ==
    IF a = <<>> THEN <<>>
    ELSE LET y == IF b = <<>> THEN 0 ELSE b[1]
             t == a[1] - y - borrow
         IN  <<IF t < 0 THEN t + LimbBase ELSE t>>
             \o NSubB(Tail(a), IF b = <<>> THEN b ELSE Tail(b), IF t < 0 THEN 1 ELSE 0)

NSub(a, b) == NTrim(NSubB(a, b, 0))

\* -1, 0 or 1 as a < b, a = b or a > b
RECURSIVE NCmpTop(_, _, _)
NCmpTop(a, b, i) ==
    IF i = 0 THEN 0
    ELSE IF a[i] < b[i] THEN -1
    ELSE IF a[i] > b[i] THEN 1
    ELSE NCmpTop(a, b, i - 1)

NCmp(a, b) == IF Len(a) < Len(b) THEN -1
              ELSE IF Len(a) > Len(b) THEN 1
              ELSE NCmpTop(a, b, Len(a))

\* a * k for 0 <= k < LimbBase
RECURSIVE NMulSmallC(_, _, _)
NMulSmallC(a, k, carry) ==
    IF a = <<>> THEN (IF carry = 0 THEN <<>> ELSE <<carry>>)
    ELSE LET t == a[1] * k + carry
         IN  <<t % LimbBase>> \o NMulSmallC(Tail(a), k, t \div LimbBase)

NMulSmall(a, k) == IF k = 0 THEN <<>> ELSE NMulSmallC(a, k, 0)

RECURSIVE NMul(_, _)
NMul(a, b) ==
    IF b = <<>> THEN <<>>
    ELSE NAdd(NMulSmall(a, b[1]), NTrim(<<0>> \o NMul(a, Tail(b))))

\* limb j of a, 0 outside of a
NLimb(a, j) == IF j >= 1 /\ j <= Len(a) THEN a[j] ELSE 0

\* a * 2^k: limb j takes the low bits of limb j - w and the high bits of limb
\* j - w - 1, for k = LimbBits * w + r
NShl(a, k) ==
    LET w == k \div LimbBits
        r == k % LimbBits
    IN  NTrim([j \in 1..(Len(a) + w + 1) |->
                 (NLimb(a, j - w) % Pow2(LimbBits - r)) * Pow2(r)
                 + NLimb(a, j - w - 1) \div Pow2(LimbBits - r)])

\* floor(a / 2^k)
NShr(a, k) ==
    LET w == k \div LimbBits
        r == k % LimbBits
    IN  IF w >= Len(a) THEN <<>>
        ELSE NTrim([j \in 1..(Len(a) - w) |->
                      NLimb(a, j + w) \div Pow2(r)
                      + (NLimb(a, j + w + 1) % Pow2(r)) * Pow2(LimbBits - r)])

\* a mod 2^k
NLowBits(a, k) ==
    LET w == k \div LimbBits
        r == k % LimbBits
    IN  NTrim([j \in 1..(w + 1) |->
                 IF j <= w THEN NLimb(a, j) ELSE NLimb(a, j) % Pow2(r)])

RECURSIVE BitLenInt(_)
BitLenInt(n) == IF n = 0 THEN 0 ELSE 1 + BitLenInt(n \div 2)

NBitLen(a) == IF a = <<>> THEN 0 ELSE LimbBits * (Len(a) - 1) + BitLenInt(a[Len(a)])

\* bit i (from 0) of a
NBit(a, i) == IF i \div LimbBits >= Len(a) THEN 0
              ELSE (a[(i \div LimbBits) + 1] \div Pow2(i % LimbBits)) % 2

\* the digit d with b * d <= r < b * (d + 1), for r < b * LimbBase and b
\* with a top limb of LimbBase / 2 or more: the quotient of the two leading
\* limbs of r by the top limb of b is d, d + 1 or d + 2
NQuotDigit(r, b) ==
    LET n == Len(b)
        lead == (IF Len(r) > n THEN r[n + 1] ELSE 0) * LimbBase
                + (IF Len(r) >= n THEN r[n] ELSE 0)
        estimate == IF lead \div b[n] < LimbBase THEN lead \div b[n]
                    ELSE LimbBase - 1
    IN  CHOOSE d \in (IF estimate > 2 THEN estimate - 2 ELSE 0)..estimate :
            /\ NCmp(NMulSmall(b, d), r) <= 0
            /\ d + 1 = LimbBase \/ NCmp(NMulSmall(b, d + 1), r) > 0

\* one step of the long division: the digit d joins the quotient q, and
\* r - b * d is the new remainder
NDivStep(q, r, b, d) == <<(<<d>> \o q), NSub(r, NMulSmall(b, d))>>

\* long division by b with a top limb of LimbBase / 2 or more: <<quotient,
\* remainder>> of the limbs i and above of a (the quotient may carry leading
\* zero limbs); the top Len(b) - 1 limbs of a are below b
RECURSIVE NDivModLimbs(_, _, _)
NDivModLimbs(a, b, i) ==
    IF i > Len(a) - (Len(b) - 1) THEN <<(<<>>), NTrim(SubSeq(a, i, Len(a)))>>
    ELSE LET above == NDivModLimbs(a, b, i + 1)
         IN  IF above[2] = <<>> /\ a[i] = 0 THEN <<(<<0>> \o above[1]), (<<>>)>>
             ELSE NDivStep(above[1], <<a[i]>> \o above[2], b,
                           NQuotDigit(<<a[i]>> \o above[2], b))

\* IEEE-754 binary64 values >= 0 as <<m, e>>: the value m * 2^e with m = 0
\* (and e = 0) or 2^52 <= m < 2^53 (no subnormals, no overflow)
MantBits == 53

FZero == <<<<>>, 0>>

\* a rounded-up mantissa of MantBits + 1 bits is 2^MantBits: halved
FRenorm(q, e) == IF NBitLen(q) > MantBits THEN <<NShr(q, 1), e + 1>> ELSE <<q, e>>

\* the float nearest to M * 2^e (ties to even); sticky says that the exact
\* value is above M * 2^e by less than 2^e.  With more than MantBits bits
\* in M, the bits below the kept ones decide: the first of them is the half,
\* the others and sticky say whether the value is above the half.
FRound(M, e, sticky) ==
    LET L == NBitLen(M)
        shift == L - MantBits
        up == /\ NBit(M, shift - 1) = 1
              /\ \/ sticky
                 \/ NBit(M, shift) = 1
                 \/ NLowBits(M, shift - 1) # <<>>
    IN  IF L = 0 THEN FZero
        ELSE IF L <= MantBits THEN <<NShl(M, MantBits - L), e - (MantBits - L)>>
        ELSE FRenorm(NAdd(NShr(M, shift), IF up THEN <<1>> ELSE <<>>), e + shift)

\* float(n) for 0 <= n < 2^31: exact
FFromInt(n) ==
    IF n = 0 THEN FZero
    ELSE <<NShl(NFromInt(n), MantBits - BitLenInt(n)), BitLenInt(n) - MantBits>>

\* -1, 0, 1
FCmp(x, y) ==
    IF x[1] = <<>> THEN (IF y[1] = <<>> THEN 0 ELSE -1)
    ELSE IF y[1] = <<>> THEN 1
    ELSE IF x[2] # y[2] THEN (IF x[2] < y[2] THEN -1 ELSE 1)
    ELSE NCmp(x[1], y[1])

FLt(x, y) == FCmp(x, y) < 0

FLe(x, y) == FCmp(x, y) <= 0

\* x + y: the mantissas are added at the smaller exponent
FAdd(x, y) ==
    IF x[1] = <<>> THEN y ELSE IF y[1] = <<>> THEN x
    ELSE FRound(NAdd(NShl(x[1], x[2] - Min(x[2], y[2])),
                     NShl(y[1], y[2] - Min(x[2], y[2]))), Min(x[2], y[2]), FALSE)

\* x - y for x >= y
FSub(x, y) ==
    IF y[1] = <<>> THEN x
    ELSE FRound(NSub(NShl(x[1], x[2] - Min(x[2], y[2])),
                     NShl(y[1], y[2] - Min(x[2], y[2]))), Min(x[2], y[2]), FALSE)

FMul(x, y) ==
    IF x[1] = <<>> \/ y[1] = <<>> THEN FZero
    ELSE FRound(NMul(x[1], y[1]), x[2] + y[2], FALSE)

\* the float nearest to the quotient qr[1] * 2^e of a division that left the
\* remainder qr[2]
FRoundQuot(qr, e) == FRound(NTrim(qr[1]), e, qr[2] # <<>>)

\* x / y for y > 0: the mantissa of x is scaled by 2^(MantBits + 3) for 56
\* quotient bits or more, and both by 2^NormBits, which brings the top limb
\* of the MantBits-bit mantissa of y to LimbBase / 2 or more
FDiv(x, y) ==
    LET NormBits == LimbBits - (MantBits % LimbBits)
    IN  IF x[1] = <<>> THEN FZero
        ELSE FRoundQuot(NDivModLimbs(NShl(x[1], MantBits + 3 + NormBits),
                                     NShl(y[1], NormBits), 1),
                        x[2] - y[2] - (MantBits + 3))

\* int(x): the integer part
FTrunc(x) ==
    IF x[1] = <<>> THEN 0
    ELSE IF x[2] >= 0 THEN NToInt(NShl(x[1], x[2]))
    ELSE NToInt(NShr(x[1], -x[2]))

(***************************************************************************)
(* Scoring in floats                                                       *)
(***************************************************************************)
\* the float a decimal literal with one fractional digit denotes: n/10, rounded
Dec(n) == FDiv(FFromInt(n), FFromInt(10))

\* ProductInput of a request whose price and cost are written with one
\* fractional digit (price10 and cost10 are in tenths); avg_daily_sales is a
\* whole number
Product_f64(id, price10, cost10, stock, sales, minq, maxq) ==
    [product_id |-> id, price |-> Dec(price10), cost |-> Dec(cost10),
     stock |-> stock, avg_daily_sales |-> FFromInt(sales),
     min_order_qty |-> minq, max_order_qty |-> maxq]

\* adjusted_demand *= 1.20, adjusted_demand *= 1.50
apply_context_multipliers_f64(base_demand, is_payday, upcoming_holiday) ==
    LET after_payday == IF is_payday THEN FMul(base_demand, Dec(12))
                        ELSE base_demand
    IN  IF upcoming_holiday # None /\ Lower(upcoming_holiday) \in RecognizedHolidays
        THEN FMul(after_payday, Dec(15))
        ELSE after_payday

\* p.stock / daily_demand if daily_demand > 0 else 999
CurrentDaysOfStock_f64(p, daily_demand) ==
    IF FLt(FZero, daily_demand) THEN FDiv(FFromInt(p.stock), daily_demand)
    ELSE FFromInt(999)

Urgency_f64(current_days_of_stock, restock_days) ==
    IF FLt(current_days_of_stock, Dec(5)) THEN FFromInt(10)
    ELSE IF FLt(current_days_of_stock, FFromInt(1)) THEN FFromInt(8)
    ELSE IF FLt(current_days_of_stock, FFromInt(2)) THEN FFromInt(5)
    ELSE IF FLt(current_days_of_stock, FFromInt(3)) THEN FFromInt(3)
    ELSE IF FLt(current_days_of_stock, FFromInt(7)) THEN FFromInt(2)
    ELSE IF FLt(current_days_of_stock, FFromInt(restock_days)) THEN Dec(15)
    ELSE FFromInt(1)

StockoutPenalty_f64(current_days_of_stock, restock_days) ==
    IF FLt(current_days_of_stock, Dec(5)) THEN FFromInt(1)
    ELSE IF FLt(current_days_of_stock, FFromInt(1)) THEN Dec(9)
    ELSE IF FLt(current_days_of_stock, FFromInt(2)) THEN Dec(7)
    ELSE IF FLt(current_days_of_stock, FFromInt(3)) THEN Dec(5)
    ELSE IF FLt(current_days_of_stock, FFromInt(7)) THEN Dec(2)
    ELSE IF FLt(current_days_of_stock, FFromInt(restock_days)) THEN Dec(1)
    ELSE FZero

\* unit_profit = max(0.0, p.price - p.cost)
UnitProfit_f64(p) == IF FLt(p.cost, p.price) THEN FSub(p.price, p.cost) ELSE FZero

\* unit_profit * daily_demand * urgency
ProfitScore_f64(p, daily_demand, urgency) ==
    FMul(FMul(UnitProfit_f64(p), daily_demand), urgency)

\* (daily_demand / p.cost if p.cost > 0 else 0) * urgency
VolumeScore_f64(p, daily_demand, urgency) ==
    FMul(IF FLt(FZero, p.cost) THEN FDiv(daily_demand, p.cost) ELSE FZero, urgency)

\* max(0, int((daily_demand * days) - p.stock))
ShortfallQty_f64(p, daily_demand, days) ==
    LET wanted == FMul(daily_demand, FFromInt(days))
        stock == FFromInt(p.stock)
    IN  IF FLt(wanted, stock) THEN 0 ELSE FTrunc(FSub(wanted, stock))

\* the full-cycle quantity with the min/max order quantities applied
NeededQty_f64(p, daily_demand, restock_days) ==
    LET needed_qty == ShortfallQty_f64(p, daily_demand, restock_days)
        raised == Max(needed_qty, p.min_order_qty)
    IN  IF needed_qty > 0
        THEN (IF HasMax(p) THEN Min(raised, p.max_order_qty) ELSE raised)
        ELSE needed_qty

EmergencyDays_f64(daily_demand) ==
    IF FLt(FFromInt(40), daily_demand) THEN 2
    ELSE IF FLt(FFromInt(20), daily_demand) THEN 3
    ELSE 5

\* the emergency quantity from the emergency shortfall
EmergencyOrderQty_f64(p, emergency_qty) ==
    LET raised == IF emergency_qty > 0 THEN Max(emergency_qty, p.min_order_qty)
                  ELSE p.min_order_qty
    IN  IF HasMax(p) THEN Min(raised, p.max_order_qty) ELSE raised

EmergencyQty_f64(p, daily_demand) ==
    EmergencyOrderQty_f64(p, ShortfallQty_f64(p, daily_demand,
                                               EmergencyDays_f64(daily_demand)))

\* one entry of scored_products before the critical/non-critical split
ScoredItem_f64(p, goal, restock_days, daily_demand, cds, urgency) ==
    LET profit_score == ProfitScore_f64(p, daily_demand, urgency)
        volume_score == VolumeScore_f64(p, daily_demand, urgency)
    IN  [product |-> p,
         score |-> IF goal = "volume" THEN volume_score ELSE profit_score,
         profit_score |-> profit_score, volume_score |-> volume_score,
         stockout_penalty |-> StockoutPenalty_f64(cds, restock_days),
         qty |-> NeededQty_f64(p, daily_demand, restock_days),
         urgency |-> urgency, unit_profit |-> UnitProfit_f64(p),
         current_days_of_stock |-> cds,
         has_emergency |-> FALSE, emergency_qty |-> 0, emergency_cost |-> FZero,
         efficiency |-> FZero]

\* the scoring of one product at its adjusted demand
ScoreAtDemand_f64(p, goal, restock_days, daily_demand) ==
    ScoredItem_f64(p, goal, restock_days, daily_demand,
                   CurrentDaysOfStock_f64(p, daily_demand),
                   Urgency_f64(CurrentDaysOfStock_f64(p, daily_demand), restock_days))

ScoreProduct_f64(p, goal, restock_days, is_payday, upcoming_holiday) ==
    ScoreAtDemand_f64(p, goal, restock_days,
                      apply_context_multipliers_f64(p.avg_daily_sales, is_payday,
                                                    upcoming_holiday))

RECURSIVE FMaxSeq(_)
FMaxSeq(s) == IF Len(s) = 1 THEN s[1]
              ELSE LET m == FMaxSeq(Tail(s))
                   IN  IF FLt(s[1], m) THEN m ELSE s[1]

\* (norm_profit * 0.5) + (norm_volume * 0.5) + (stockout_penalty * 0.5)
HybridScore_f64(item, max_profit, max_volume) ==
    LET norm_profit == IF FLt(FZero, max_profit)
                       THEN FDiv(item.profit_score, max_profit) ELSE FZero
        norm_volume == IF FLt(FZero, max_volume)
                       THEN FDiv(item.volume_score, max_volume) ELSE FZero
        base_score == FAdd(FMul(norm_profit, Dec(5)), FMul(norm_volume, Dec(5)))
    IN  FAdd(base_score, FMul(item.stockout_penalty, Dec(5)))

\* scored_products from the entries of all products: the entries with a
\* quantity are kept, and the balanced goal replaces their scores
KeptScores_f64(all, goal) ==
    LET kept == SelectSeq(all, NeedsRestock)
        max_profit == IF Len(all) > 0
                      THEN FMaxSeq([i \in 1..Len(all) |-> all[i].profit_score])
                      ELSE FFromInt(1)
        max_volume == IF Len(all) > 0
                      THEN FMaxSeq([i \in 1..Len(all) |-> all[i].volume_score])
                      ELSE FFromInt(1)
    IN  IF goal = "balanced"
        THEN [i \in 1..Len(kept) |->
                [kept[i] EXCEPT !.score = HybridScore_f64(kept[i], max_profit,
                                                          max_volume)]]
        ELSE kept

ScoredProducts_f64(products, goal, restock_days, is_payday, upcoming_holiday) ==
    KeptScores_f64([i \in 1..Len(products) |->
                      ScoreProduct_f64(products[i], goal, restock_days, is_payday,
                                       upcoming_holiday)], goal)

IsCritical_f64(item) == FLt(item.current_days_of_stock, FFromInt(1))

IsNotCritical_f64(item) == ~IsCritical_f64(item)

\* the emergency fields set on a critical item
WithEmergency_f64(item, emergency_qty) ==
    LET emergency_cost == FMul(item.product.cost, FFromInt(emergency_qty))
    IN  [item EXCEPT !.has_emergency = TRUE,
                     !.emergency_qty = emergency_qty,
                     !.emergency_cost = emergency_cost,
                     !.efficiency = IF FLt(FZero, emergency_cost)
                                    THEN FDiv(item.score, emergency_cost)
                                    ELSE FZero]

\* list.sort(key=lambda x: x[key], reverse=True) with a float key
RECURSIVE InsertDesc_f64(_, _, _)
InsertDesc_f64(sorted, x, key) ==
    IF sorted = <<>> THEN <<x>>
    ELSE IF FLt(Head(sorted)[key], x[key]) THEN <<x>> \o sorted
    ELSE <<Head(sorted)>> \o InsertDesc_f64(Tail(sorted), x, key)

RECURSIVE SortDesc_f64(_, _)
SortDesc_f64(s, key) ==
    IF s = <<>> THEN <<>>
    ELSE InsertDesc_f64(SortDesc_f64(SubSeq(s, 1, Len(s) - 1), key), s[Len(s)], key)

\* critical_items + non_critical_items after the two sorts
SortedProducts_f64(scored_products, is_payday, upcoming_holiday) ==
    LET crit == SelectSeq(scored_products, IsCritical_f64)
    IN  SortDesc_f64([i \in 1..Len(crit) |->
                        WithEmergency_f64(crit[i],
                            EmergencyQty_f64(crit[i].product,
                                apply_context_multipliers_f64(
                                    crit[i].product.avg_daily_sales, is_payday,
                                    upcoming_holiday)))], "efficiency")
        \o SortDesc_f64(SelectSeq(scored_products, IsNotCritical_f64), "score")

(***************************************************************************)
(* Items, totals and warnings in floats                                    *)
(***************************************************************************)
RestockItem_f64(item, qty, total_cost) ==
    LET p == item.product
    IN  [product_id |-> p.product_id,
         qty |-> qty,
         unit_cost |-> p.cost,
         total_cost |-> total_cost,
         expected_profit |-> FMul(FFromInt(qty), item.unit_profit),
         expected_revenue |-> FMul(FFromInt(qty), p.price),
         days_of_stock |-> IF FLt(FZero, p.avg_daily_sales)
                           THEN FDiv(FFromInt(qty), p.avg_daily_sales)
                           ELSE FFromInt(999),
         priority_score |-> item.score]

\* sum(...) over floats: the running total takes one term after the other.
\* (From Python 3.12 on sum() carries a correction term; for one or two terms
\* the result is the same.)
RECURSIVE FSumFrom(_, _)
FSumFrom(s, total) == IF s = <<>> THEN total
                      ELSE FSumFrom(Tail(s), FAdd(total, Head(s)))

compute_totals_f64(items, budget) ==
    LET total_items == Len(items)
        total_qty == SumSeq([i \in 1..Len(items) |-> items[i].qty])
        total_cost == FSumFrom([i \in 1..Len(items) |-> items[i].total_cost], FZero)
        expected_revenue == FSumFrom([i \in 1..Len(items) |-> items[i].expected_revenue], FZero)
        expected_profit == FSumFrom([i \in 1..Len(items) |-> items[i].expected_profit], FZero)
    IN  [total_items |-> total_items,
         total_qty |-> total_qty,
         total_cost |-> total_cost,
         budget_used_pct |-> IF FLt(FZero, budget)
                             THEN FMul(FDiv(total_cost, budget), FFromInt(100))
                             ELSE FZero,
         expected_revenue |-> expected_revenue,
         expected_profit |-> expected_profit,
         expected_roi |-> IF FLt(FZero, total_cost)
                          THEN FMul(FDiv(expected_profit, total_cost), FFromInt(100))
                          ELSE FZero,
         avg_days_of_stock |->
             IF total_items > 0
             THEN FDiv(FSumFrom([i \in 1..Len(items) |-> items[i].days_of_stock], FZero),
                       FFromInt(total_items))
             ELSE FZero]

\* RestockTotals(...): budget_used_pct is declared with le=100; the other
\* bounds (ge=0) hold of every value written <<m, e>>
RestockTotalsAccepted(totals) == FLe(totals.budget_used_pct, FFromInt(100))

RECURSIVE InsertAsc_f64(_, _)
InsertAsc_f64(sorted, x) ==
    IF sorted = <<>> THEN <<x>>
    ELSE IF FLt(x[1], Head(sorted)[1]) THEN <<x>> \o sorted
    ELSE <<Head(sorted)>> \o InsertAsc_f64(Tail(sorted), x)

RECURSIVE SortAsc_f64(_)
SortAsc_f64(s) ==
    IF s = <<>> THEN <<>>
    ELSE InsertAsc_f64(SortAsc_f64(SubSeq(s, 1, Len(s) - 1)), s[Len(s)])

\* days_left = p.stock / p.avg_daily_sales if p.avg_daily_sales > 0 else 999
DaysLeft_f64(p) == IF FLt(FZero, p.avg_daily_sales)
                   THEN FDiv(FFromInt(p.stock), p.avg_daily_sales)
                   ELSE FFromInt(999)

LowStockProducts_f64(items, all_products) ==
    LET selected_ids == {items[i].product_id : i \in 1..Len(items)}
        IsLow(p) == /\ p.product_id \notin selected_ids
                    /\ FLt(DaysLeft_f64(p), FFromInt(3))
                    /\ FLt(FZero, p.avg_daily_sales)
        low == SelectSeq(all_products, IsLow)
    IN  SortAsc_f64([i \in 1..Len(low) |-> <<DaysLeft_f64(low[i]), low[i].product_id>>])

\* generate_warnings from the sorted low_stock_products on
generate_warnings_f64(low_stock_products, totals) ==
    LET n == Len(low_stock_products)
        IsCrit(x) == FLt(x[1], FFromInt(1))
        IsWarn(x) == FLe(FFromInt(1), x[1]) /\ FLt(x[1], FFromInt(2))
        IsInfo(x) == FLe(FFromInt(2), x[1]) /\ FLt(x[1], FFromInt(3))
        critical_items == SelectSeq(low_stock_products, IsCrit)
        warning_items == SelectSeq(low_stock_products, IsWarn)
        info_items == SelectSeq(low_stock_products, IsInfo)
        items_to_show == SubSeq(low_stock_products, 1, Min(n, max_individual_warnings))
        remaining_count == n - max_individual_warnings
    IN  (IF FLt(totals.budget_used_pct, FFromInt(50))
         THEN <<Msg("low_budget_utilization", 0, totals.budget_used_pct, 0, "")>>
         ELSE <<>>)
        \o (IF FLt(FFromInt(45), totals.avg_days_of_stock)
            THEN <<Msg("high_days_of_stock", 0, totals.avg_days_of_stock, 0, "")>>
            ELSE <<>>)
        \o (IF FLt(totals.avg_days_of_stock, FFromInt(7))
            THEN <<Msg("low_days_of_stock", 0, totals.avg_days_of_stock, 0, "")>>
            ELSE <<>>)
        \o [i \in 1..Len(items_to_show) |->
              Msg("low_stock_not_selected", items_to_show[i][2],
                  items_to_show[i][1], 0, "")]
        \o (IF remaining_count > 0
            THEN <<Msg("more_low_stock", 0, remaining_count, 0, "")>>
            ELSE <<>>)
        \o (IF n > 0 /\ (Len(critical_items) > 0 \/ Len(warning_items) > 0
                           \/ Len(info_items) > 0)
            THEN <<Msg("summary", Len(critical_items), Len(warning_items),
                       Len(info_items), "")>>
            ELSE <<>>)

ReasoningTail_f64(items, sorted) ==
    LET critical_ids == {sorted[i].product.product_id :
                           i \in {j \in 1..Len(sorted) : IsCritical_f64(sorted[j])}}
        critical_selected ==
            Cardinality({i \in 1..Len(items) : items[i].product_id \in critical_ids})
    IN  <<IF critical_selected > 0
          THEN Msg("selected_critical", 0, Len(items), critical_selected, "")
          ELSE Msg("selected", 0, Len(items), 0, ""),
          Msg("closing", 0, 0, 0, "")>>

(***************************************************************************)
(* The run in floats.  Requests carry prices, costs and budgets with one   *)
(* fractional digit; product lists have one or two products.               *)
(***************************************************************************)
FloatProductLists ==
    { \* three days of stock at 1/day and an out-of-stock product
      <<Product_f64(1, 10, 9, 3, 1, 1, 0), Product_f64(2, 6, 3, 0, 1, 1, 0)>>,
      \* two days and one day of stock at 1/day
      <<Product_f64(1, 46, 27, 2, 1, 1, 0), Product_f64(2, 23, 7, 1, 1, 1, 0)>>,
      \* two and three days of stock at 1/day
      <<Product_f64(1, 29, 18, 2, 1, 1, 0), Product_f64(2, 26, 6, 3, 1, 1, 0)>>,
      \* cost = price
      <<Product_f64(1, 10, 10, 0, 1, 1, 0)>>,
      \* out of stock at 1/day, cost 4.2: three units cost the budget 12.6
      <<Product_f64(1, 60, 42, 0, 1, 1, 0)>> }

\* budgets 0.5, 12.6, 25.3 and 28.2
FloatBudgetChoices == {Dec(5), Dec(126), Dec(253), Dec(282)}

Init_f64 ==
    /\ request \in [budget : FloatBudgetChoices,
                    goal : GoalChoices,
                    products : FloatProductLists,
                    restock_days : {14},
                    is_payday : BOOLEAN,
                    upcoming_holiday : {None, "christmas"}]
    /\ pc = "start"
    /\ valid_products = <<>>
    /\ sorted_products = <<>>
    /\ pos = 0
    /\ selected_items = <<>>
    /\ remaining_budget = FZero
    /\ reasoning = <<>>
    /\ response = Response("", 0, <<>>, ZeroTotals, <<>>, <<>>, 0, 0)
    /\ stages = {}

IsValidProduct_f64(p) ==
    FLt(p.cost, p.price) /\ FLt(FZero, p.price) /\ FLt(FZero, p.cost)

Filter_f64 ==
    /\ pc = "start"
    /\ valid_products' = SelectSeq(request.products, IsValidProduct_f64)
    /\ pc' = "filtered"
    /\ stages' = stages \cup {"filter"}
    /\ UNCHANGED <<request, sorted_products, pos, selected_items,
                   remaining_budget, reasoning, response>>

Score_f64 ==
    /\ pc = "filtered"
    /\ Len(valid_products) > 0
    /\ reasoning' = ReasoningHead(request.goal, request.budget, request.restock_days,
                                  request.is_payday, request.upcoming_holiday)
    /\ sorted_products' =
           SortedProducts_f64(ScoredProducts_f64(valid_products, request.goal,
                                                 request.restock_days,
                                                 request.is_payday,
                                                 request.upcoming_holiday),
                              request.is_payday, request.upcoming_holiday)
    /\ selected_items' = <<>>
    /\ remaining_budget' = request.budget
    /\ pos' = 1
    /\ pc' = IF Len(sorted_products') = 0 THEN "complete" ELSE "scan"
    /\ stages' = stages \cup {"scoring"}
    /\ UNCHANGED <<request, valid_products, response>>

\* the quantity and cost the loop body settles on for one candidate
Attempt_f64(item, remaining) ==
    LET p == item.product
        affordable_qty == FTrunc(FDiv(remaining, p.cost))
        capped_qty == Min(affordable_qty, item.emergency_qty)
        full_cost == FMul(p.cost, FFromInt(item.qty))
    IN  IF item.has_emergency /\ item.emergency_qty > 0
        THEN IF FLt(remaining, item.emergency_cost)
             THEN [skip |-> affordable_qty < p.min_order_qty,
                   qty |-> capped_qty,
                   total_cost |-> FMul(p.cost, FFromInt(capped_qty))]
             ELSE [skip |-> FALSE, qty |-> item.emergency_qty,
                   total_cost |-> item.emergency_cost]
        ELSE IF FLt(remaining, full_cost)
             THEN [skip |-> affordable_qty < p.min_order_qty,
                   qty |-> affordable_qty,
                   total_cost |-> FMul(p.cost, FFromInt(affordable_qty))]
             ELSE [skip |-> FALSE, qty |-> item.qty, total_cost |-> full_cost]

Commits_f64(att, remaining) ==
    ~att.skip /\ att.qty > 0 /\ FLe(att.total_cost, remaining)

ScanSkip_f64 ==
    /\ pc = "scan"
    /\ ~Commits_f64(Attempt_f64(sorted_products[pos], remaining_budget),
                    remaining_budget)
    /\ pos' = pos + 1
    /\ pc' = IF pos' > Len(sorted_products) THEN "complete" ELSE "scan"
    /\ stages' = stages \cup {"allocation"}
    /\ UNCHANGED <<request, valid_products, sorted_products, selected_items,
                   remaining_budget, reasoning, response>>

ScanCommit_f64 ==
    /\ pc = "scan"
    /\ LET item == sorted_products[pos]
           att == Attempt_f64(item, remaining_budget)
       IN  /\ Commits_f64(att, remaining_budget)
           /\ selected_items' = Append(selected_items,
                                       RestockItem_f64(item, att.qty, att.total_cost))
           /\ remaining_budget' = FSub(remaining_budget, att.total_cost)
    /\ pos' = pos + 1
    /\ pc' = IF FLt(remaining_budget', FFromInt(1)) THEN "exhausted"
             ELSE IF pos' > Len(sorted_products) THEN "complete"
             ELSE "scan"
    /\ stages' = stages \cup {"allocation"}
    /\ UNCHANGED <<request, valid_products, sorted_products, reasoning, response>>

\* the rest of the strategy function and of compute_restock_strategy.  The
\* RestockTotals constructor raises a ValidationError on a value outside its
\* declared bounds; the route answers every exception with status 500 and no
\* response body is built.
Respond_f64 ==
    /\ pc \in {"exhausted", "complete"}
    /\ reasoning' = reasoning \o ReasoningTail_f64(selected_items, sorted_products)
    /\ LET totals == compute_totals_f64(selected_items, request.budget)
           warnings == generate_warnings_f64(
                           LowStockProducts_f64(selected_items, request.products),
                           totals)
       IN  IF RestockTotalsAccepted(totals)
           THEN /\ response' =
                       Response(request.goal, request.budget, selected_items, totals,
                                reasoning',
                                warnings \o ExclusionNote(request.products,
                                                          valid_products),
                                Len(request.products), request.restock_days)
                /\ pc' = "done"
                /\ stages' = stages \cup {"totals", "diagnostics"}
           ELSE /\ response' = response
                /\ pc' = "error"
                /\ stages' = stages \cup {"totals"}
    /\ UNCHANGED <<request, valid_products, sorted_products, pos, selected_items,
                   remaining_budget>>

Next_f64 ==
    \/ Filter_f64
    \/ NoValidProducts
    \/ Score_f64
    \/ ScanSkip_f64
    \/ ScanCommit_f64
    \/ Respond_f64

Spec_f64 == Init_f64 /\ [][Next_f64]_vars

(***************************************************************************)
(* Properties                                                              *)
(***************************************************************************)
\* the input product an item was emitted for (product ids are distinct)
ProductOf(it) ==
    LET i == CHOOSE j \in 1..Len(request.products) :
                 request.products[j].product_id = it.product_id
    IN  request.products[i]

AdjustedDemand(p) ==
    apply_context_multipliers(p.avg_daily_sales, request.is_payday,
                              request.upcoming_holiday)

\* stock divided by adjusted daily demand is below 1.0
CriticalProduct(p) ==
    AdjustedDemand(p) > 0 /\ p.stock * AdjDen < AdjustedDemand(p)

TotalCostOf(items) == SumSeq([i \in 1..Len(items) |-> items[i].total_cost])

InLoop == pc \in {"scan", "exhausted", "complete"}

HasItemFor(items, p) == \E i \in 1..Len(items) : items[i].product_id = p.product_id

ItemFor(items, p) == items[CHOOSE i \in 1..Len(items) : items[i].product_id = p.product_id]

C2_QtyWithinOrderLimits ==
    \A i \in 1..Len(selected_items) :
        LET it == selected_items[i]
            p == ProductOf(it)
        IN  (~HasMax(p) \/ p.max_order_qty >= p.min_order_qty)
            => /\ it.qty >= p.min_order_qty
               /\ HasMax(p) => it.qty <= p.max_order_qty

\* a returned budget-reduced purchase, next to a returned item of a product
\* with a minimum order above 1 bought at its maximum order quantity
C2_Witness ==
    /\ pc = "done"
    /\ \E i \in 1..Len(response.items) :
          LET p == ProductOf(response.items[i])
          IN  /\ HasMax(p) /\ p.max_order_qty >= p.min_order_qty
              /\ p.min_order_qty > 1
              /\ response.items[i].qty = p.max_order_qty
    /\ \E i \in 1..Len(sorted_products) :
          /\ HasItemFor(response.items, sorted_products[i].product)
          /\ ItemFor(response.items, sorted_products[i].product).qty
               < (IF sorted_products[i].has_emergency
                  THEN sorted_products[i].emergency_qty ELSE sorted_products[i].qty)

CostBefore(k) ==
    SumSeq([j \in 1..(k - 1) |->
              IF HasItemFor(response.items, sorted_products[j].product)
              THEN ItemFor(response.items, sorted_products[j].product).total_cost
              ELSE 0])

C6_NoItemWithCostAtLeastPrice ==
    /\ \A i \in 1..Len(selected_items) :
          ProductOf(selected_items[i]).cost < ProductOf(selected_items[i]).price
    /\ \A i \in 1..Len(response.items) :
          ProductOf(response.items[i]).cost < ProductOf(response.items[i]).price

\* a response with items for a request that also holds an out-of-stock
\* product with cost >= price, the budget not being used up
C6_Witness ==
    /\ pc = "done"
    /\ Len(response.items) > 0
    /\ TotalCostOf(response.items) < request.budget
    /\ \E i \in 1..Len(request.products) :
          /\ request.products[i].cost >= request.products[i].price
          /\ request.products[i].stock = 0
          /\ request.products[i].avg_daily_sales > 0

\* the number of input products with cost >= price
ExcludedCount ==
    Cardinality({i \in 1..Len(request.products) :
                   request.products[i].cost >= request.products[i].price})

ExclusionNotes ==
    {i \in 1..Len(response.warnings) : response.warnings[i].kind = "excluded"}

\* C7 as stated: whenever k >= 1 input products have cost >= price the
\* warnings hold the exclusion note with count k, also when all products are
\* removed, and no such note when k = 0.
C7_ExclusionNoteAlways ==
    pc = "done" =>
        IF ExcludedCount >= 1
        THEN /\ Cardinality(ExclusionNotes) = 1
             /\ \A i \in ExclusionNotes : response.warnings[i].x = ExcludedCount
        ELSE ExclusionNotes = {}

\* C7 amended: the exclusion note with count k is in the warnings when k >= 1
\* input products have cost >= price and at least one product passes the
\* filter; there is no such note when k = 0 or when all products are removed.
C7_ExclusionNoteUnlessAllRemoved ==
    pc = "done" =>
        IF ExcludedCount >= 1 /\ ExcludedCount < Len(request.products)
        THEN /\ Cardinality(ExclusionNotes) = 1
             /\ \A i \in ExclusionNotes : response.warnings[i].x = ExcludedCount
        ELSE ExclusionNotes = {}

\* a response for a request with two removed products and one that passes
C7_Witness ==
    /\ pc = "done"
    /\ ExcludedCount = 2
    /\ Len(request.products) = 3
    /\ ExclusionNotes # {}

AllRemoved ==
    \A i \in 1..Len(request.products) :
        request.products[i].cost >= request.products[i].price

\* C8: when the filter removes every input product the run goes from the
\* filter straight to the response, which has no items, zero totals, exactly
\* the 'No valid products found' reasoning entry and the 'No products can be
\* recommended' warning, and products_selected = 0; no later stage runs.
C8_AllRemovedGivesEmptyResult ==
    AllRemoved =>
        /\ pc \in {"start", "filtered", "done"}
        /\ stages \subseteq {"filter"}
        /\ pc = "filtered" => valid_products = <<>>
        /\ pc = "done" =>
              /\ response.items = <<>>
              /\ response.totals = ZeroTotals
              /\ response.reasoning = <<Msg("no_valid_products", 0, 0, 0, "")>>
              /\ response.warnings = <<Msg("no_products", 0, 0, 0, "")>>
              /\ response.meta.products_selected = 0
              /\ response.meta.products_analyzed = Len(request.products)

\* the response for a request of two products, both removed
C8_Witness ==
    /\ pc = "done"
    /\ AllRemoved
    /\ Len(request.products) = 2
    /\ response.strategy = request.goal

\* C9: if the budget is below cost x min_order_qty for every product that
\* passes the filter, the result has no items, totals that are all zero and
\* at least one warning.
C9_NothingAffordableGivesEmptyResult ==
    (/\ pc = "done"
     /\ \A i \in 1..Len(request.products) :
           LET p == request.products[i]
           IN  p.cost < p.price => request.budget < p.cost * p.min_order_qty)
    => /\ response.items = <<>>
       /\ response.totals = ZeroTotals
       /\ response.warnings # <<>>

\* C10: every item has qty >= 1, unit_cost = cost, total_cost = qty x
\* unit_cost, expected_revenue = qty x price and expected_profit =
\* qty x (price - cost) = expected_revenue - total_cost >= 0.
C10_ItemArithmetic ==
    \A i \in 1..Len(selected_items) :
        LET it == selected_items[i]
            p == ProductOf(it)
        IN  /\ it.qty >= 1
            /\ it.unit_cost = p.cost
            /\ it.total_cost = it.qty * it.unit_cost
            /\ it.expected_revenue = it.qty * p.price
            /\ it.expected_profit = it.qty * (p.price - p.cost)
            /\ it.expected_profit = it.expected_revenue - it.total_cost
            /\ it.expected_profit >= 0

\* a returned budget-reduced item of several units with a positive profit
C10_Witness ==
    /\ pc = "done"
    /\ \E k \in 1..Len(sorted_products) :
          LET p == sorted_products[k].product
          IN  /\ HasItemFor(response.items, p)
              /\ ItemFor(response.items, p).qty > 1
              /\ ItemFor(response.items, p).qty < sorted_products[k].qty
              /\ ~sorted_products[k].has_emergency
              /\ ItemFor(response.items, p).expected_profit > 0

\* the multiplier the request's context stands for, in tenths
C11_Multiplier ==
    LET recognized == /\ request.upcoming_holiday # None
                      /\ Lower(request.upcoming_holiday) \in RecognizedHolidays
    IN  CASE request.is_payday /\ recognized -> 18
          [] request.is_payday /\ ~recognized -> 12
          [] ~request.is_payday /\ recognized -> 15
          [] OTHER -> 10

C12_FullCycleQty(p) ==
    LET shortfall == AdjustedDemand(p) * request.restock_days - p.stock * AdjDen
        floor == IF shortfall > 0 THEN shortfall \div AdjDen ELSE 0
        raised == IF floor > 0 /\ floor < p.min_order_qty THEN p.min_order_qty ELSE floor
    IN  IF floor > 0 /\ HasMax(p) /\ raised > p.max_order_qty
        THEN p.max_order_qty ELSE raised

\* the request of the single product price 100, cost 60, stock 5, 2.5/day,
\* horizon 14, budget 50000, objective balanced, no demand multiplier
C12_ScenarioA ==
    /\ request.products = <<ById(1)>>
    /\ request.budget = 50000 * MoneyScale
    /\ request.goal = "balanced"
    /\ request.restock_days = 14
    /\ C11_Multiplier = 10

\* C12: a scan step on a non-critical candidate whose full-cycle cost is
\* within the remaining budget commits it at exactly its full-cycle quantity;
\* no item belongs to a product whose full-cycle quantity is 0; and the
\* single-product request of C12_ScenarioA returns qty 30, total_cost 1800,
\* expected_profit 1200, expected_revenue 3000.
C12_NonCriticalFullCycle ==
    /\ [][(/\ pc = "scan"
            /\ ~CriticalProduct(sorted_products[pos].product)
            /\ sorted_products[pos].product.cost
                  * C12_FullCycleQty(sorted_products[pos].product) <= remaining_budget)
           => /\ Len(selected_items') = Len(selected_items) + 1
              /\ LET it == selected_items'[Len(selected_items')]
                      p == sorted_products[pos].product
                  IN  /\ it.product_id = p.product_id
                      /\ it.qty = C12_FullCycleQty(p)
                      /\ it.total_cost = p.cost * C12_FullCycleQty(p)]_vars
    /\ [](\A i \in 1..Len(selected_items) :
             C12_FullCycleQty(ProductOf(selected_items[i])) > 0)
    /\ []((pc = "done" /\ C12_ScenarioA)
           => /\ Len(response.items) = 1
              /\ response.items[1].qty = 30
              /\ response.items[1].total_cost = 1800 * MoneyScale
              /\ response.items[1].expected_profit = 1200 * MoneyScale
              /\ response.items[1].expected_revenue = 3000 * MoneyScale)

\* a returned non-critical item whose full-cycle quantity was raised to the
\* minimum order, committed after another item
C12_Witness ==
    /\ pc = "done"
    /\ \E i \in 2..Len(response.items) :
          LET p == ProductOf(response.items[i])
          IN  /\ ~CriticalProduct(p)
              /\ response.items[i].qty = p.min_order_qty
              /\ p.min_order_qty > 1
              /\ response.items[i].qty = C12_FullCycleQty(p)

\* the request of the single product with stock 0 and 50/day, horizon 14, no
\* demand multiplier, budget 50000
C13_ScenarioB ==
    /\ request.products = <<ById(2)>>
    /\ request.budget = 50000 * MoneyScale
    /\ request.restock_days = 14
    /\ C11_Multiplier = 10

C14_NoCommitBelowOneUnit ==
    [][(pc = "scan" /\ remaining_budget < MoneyScale)
         => selected_items' = selected_items]_vars

\* C15: the totals of a result are those of its item list: total_items is the
\* number of items (and meta products_selected), total_qty, total_cost,
\* expected_revenue and expected_profit are the sums of the item fields,
\* budget_used_pct = total_cost / budget x 100 within [0, 100], expected_roi =
\* expected_profit / total_cost x 100 (0 without cost), avg_days_of_stock is
\* the mean of the items' days_of_stock (0 without items).
C15_TotalsConsistent ==
    pc = "done" =>
        LET items == response.items
            t == response.totals
            n == Len(items)
            cost == SumSeq([i \in 1..n |-> items[i].total_cost])
            profit == SumSeq([i \in 1..n |-> items[i].expected_profit])
            days == RSumSeq([i \in 1..n |-> items[i].days_of_stock])
        IN  /\ t.total_items = n
            /\ response.meta.products_selected = n
            /\ t.total_qty = SumSeq([i \in 1..n |-> items[i].qty])
            /\ t.total_cost = cost
            /\ t.expected_revenue = SumSeq([i \in 1..n |-> items[i].expected_revenue])
            /\ t.expected_profit = profit
            /\ t.budget_used_pct = Rat(cost * 100, request.budget)
            /\ RLe(RZero, t.budget_used_pct) /\ RLe(t.budget_used_pct, <<100, 1>>)
            /\ IF cost = 0 THEN t.expected_roi = RZero
               ELSE t.expected_roi = Rat(profit * 100, cost)
            /\ IF n = 0 THEN t.avg_days_of_stock = RZero
               ELSE RMul(t.avg_days_of_stock, <<n, 1>>) = days

\* a result of two items or more that uses part of the budget at a profit
C15_Witness ==
    /\ pc = "done"
    /\ Len(response.items) >= 2
    /\ RLt(RZero, response.totals.budget_used_pct)
    /\ RLt(response.totals.budget_used_pct, <<100, 1>>)
    /\ RLt(RZero, response.totals.expected_roi)
    /\ \E i, j \in 1..Len(response.items) :
          response.items[i].days_of_stock # response.items[j].days_of_stock

\* the positions of the input products that are not in the item list, have
\* demand and have less than 3 days of stock at their unadjusted demand
C16_LowStock ==
    {i \in 1..Len(request.products) :
        LET p == request.products[i]
        IN  /\ \A j \in 1..Len(response.items) :
                  response.items[j].product_id # p.product_id
            /\ p.avg_daily_sales > 0
            /\ p.stock * SalesDen < 3 * p.avg_daily_sales}

\* those of them with lo <= days of stock < hi
C16_Bucket(lo, hi) ==
    {i \in C16_LowStock :
        LET p == request.products[i]
        IN  /\ lo * p.avg_daily_sales <= p.stock * SalesDen
            /\ p.stock * SalesDen < hi * p.avg_daily_sales}

C16_IsIndividual(w) == w.kind = "low_stock_not_selected"

C16_WarningsOfKind(kind) ==
    {k \in 1..Len(response.warnings) : response.warnings[k].kind = kind}

\* C16: with n the number of products of C16_LowStock, a result whose
\* diagnostics ran holds exactly min(n, 10) individual low-stock warnings, for
\* distinct products of C16_LowStock with the fewest days of stock, in
\* ascending order of days; one remainder line, stating n - 10, iff n > 10;
\* and one severity roll-up iff n > 0, whose counts are those of the buckets
\* < 1, [1, 2) and [2, 3) days and sum to n.
C16_LowStockWarnings ==
    (pc = "done" /\ "diagnostics" \in stages) =>
        LET n == Cardinality(C16_LowStock)
            W == SelectSeq(response.warnings, C16_IsIndividual)
            warned == {W[k].id : k \in 1..Len(W)}
        IN  /\ Len(W) = (IF n < 10 THEN n ELSE 10)
            /\ \A k \in 1..Len(W) :
                  \E i \in C16_LowStock :
                      /\ request.products[i].product_id = W[k].id
                      /\ W[k].x * request.products[i].avg_daily_sales
                           = W[k].y * request.products[i].stock * SalesDen
            /\ \A k, l \in 1..Len(W) :
                  k < l => /\ W[k].id # W[l].id
                           /\ W[k].x * W[l].y <= W[l].x * W[k].y
            /\ \A i \in C16_LowStock :
                  request.products[i].product_id \notin warned
                  => \A k \in 1..Len(W) :
                        W[k].x * request.products[i].avg_daily_sales
                          <= W[k].y * request.products[i].stock * SalesDen
            /\ Cardinality(C16_WarningsOfKind("more_low_stock"))
                 = (IF n > 10 THEN 1 ELSE 0)
            /\ \A k \in C16_WarningsOfKind("more_low_stock") :
                  response.warnings[k].x = n - 10
            /\ Cardinality(C16_WarningsOfKind("summary")) = (IF n > 0 THEN 1 ELSE 0)
            /\ \A k \in C16_WarningsOfKind("summary") :
                  /\ response.warnings[k].id = Cardinality(C16_Bucket(0, 1))
                  /\ response.warnings[k].x = Cardinality(C16_Bucket(1, 2))
                  /\ response.warnings[k].y = Cardinality(C16_Bucket(2, 3))
                  /\ response.warnings[k].id + response.warnings[k].x
                       + response.warnings[k].y = n

\* a result with items and with 11 low-stock products left out: 10
\* individual warnings and the remainder line
C16_Witness ==
    /\ pc = "done"
    /\ Cardinality(C16_LowStock) = 11
    /\ Len(response.items) > 0
    /\ Cardinality(C16_WarningsOfKind("low_stock_not_selected")) = 10
    /\ \E k \in C16_WarningsOfKind("more_low_stock") : response.warnings[k].x = 1

\* the identifiers named by the individual low-stock warnings
C17_Warned ==
    {response.warnings[k].id : k \in C16_WarningsOfKind("low_stock_not_selected")}

\* the low-stock products without an individual warning
C17_Unwarned ==
    {i \in C16_LowStock : request.products[i].product_id \notin C17_Warned}

\* product i of the request passed the filter, is critical at its adjusted
\* demand and is not in the item list
C17_CriticalLeftOut(i) ==
    LET p == request.products[i]
    IN  /\ p.cost < p.price
        /\ CriticalProduct(p)
        /\ \A j \in 1..Len(response.items) : response.items[j].product_id # p.product_id

\* C17: in every result, each product that passed the filter, is critical
\* and is not in the item list is named by an individual low-stock warning or
\* is one of the products counted by the remainder line.
C17_CriticalLeftOutIsWarned ==
    pc = "done" =>
        \A i \in 1..Len(request.products) :
            C17_CriticalLeftOut(i)
            => \/ request.products[i].product_id \in C17_Warned
               \/ /\ i \in C17_Unwarned
                  /\ \E k \in C16_WarningsOfKind("more_low_stock") :
                        response.warnings[k].x = Cardinality(C17_Unwarned)

\* a result with items that leaves out eleven critical products or more: ten
\* are named and one is counted by the remainder line only
C17_Witness ==
    /\ pc = "done"
    /\ Len(response.items) > 0
    /\ \E i \in C17_Unwarned : C17_CriticalLeftOut(i)
    /\ \E i \in 1..Len(request.products) :
          /\ C17_CriticalLeftOut(i)
          /\ request.products[i].product_id \in C17_Warned

\* C18: for every validated request and each goal the computation completes
\* with a response and never ends in an error state: the run in floats never
\* reaches the state in which the totals were refused by their schema and the
\* route answered the exception.
C18_NeverEndsInError == pc # "error"

\* C19: every product that reaches the allocator has, when max_order_qty is
\* present, max_order_qty >= min_order_qty, and no item of the scan has a
\* quantity equal to its product's maximum and below its product's minimum.
C19_MaxAtLeastMin ==
    /\ \A i \in 1..Len(valid_products) :
          HasMax(valid_products[i])
          => valid_products[i].max_order_qty >= valid_products[i].min_order_qty
    /\ \A j \in 1..Len(selected_items) :
          ~ /\ HasMax(ProductOf(selected_items[j]))
            /\ selected_items[j].qty = ProductOf(selected_items[j]).max_order_qty
            /\ selected_items[j].qty < ProductOf(selected_items[j]).min_order_qty

\* the urgency multiplier the scoring gives product p of the request
C20_UrgencyOf(p) ==
    ScoreProduct(p, request.goal, request.restock_days, request.is_payday,
                 request.upcoming_holiday).urgency

\* the days of stock of p at its adjusted demand are below halves / 2, with
\* the sentinel of a zero demand below nothing
C20_DaysBelow(p, halves) ==
    AdjustedDemand(p) > 0 /\ 2 * p.stock * AdjDen < halves * AdjustedDemand(p)

ScoreOf(p) ==
    ScoreProduct(p, request.goal, request.restock_days, request.is_payday,
                 request.upcoming_holiday)

\* C21: a product whose current days of stock are at least restock_days has
\* the urgency multiplier 1 and, under the balanced goal, the stockout
\* penalty 0.
C21_WellStockedUrgencyOne ==
    \A i \in 1..Len(valid_products) :
        RLe(<<request.restock_days, 1>>, ScoreOf(valid_products[i]).current_days_of_stock)
        => /\ ScoreOf(valid_products[i]).urgency = <<1, 1>>
           /\ request.goal = "balanced"
              => ScoreOf(valid_products[i]).stockout_penalty = RZero

\* the largest profit score and the largest volume score among all products
\* that passed the filter, kept as candidates or not
C22_MaxProfit ==
    LET all == {ScoreOf(valid_products[k]).profit_score : k \in 1..Len(valid_products)}
    IN  CHOOSE m \in all : \A x \in all : RLe(x, m)

C22_MaxVolume ==
    LET all == {ScoreOf(valid_products[k]).volume_score : k \in 1..Len(valid_products)}
    IN  CHOOSE m \in all : \A x \in all : RLe(x, m)

C22_Norm(x, m) == IF RLt(RZero, m) THEN RDiv(x, m) ELSE RZero

C22_InRange(x, hi) == RLe(RZero, x) /\ RLe(x, hi)

C23_Horizon(p) ==
    IF AdjustedDemand(p) > 40 * AdjDen THEN 2
    ELSE IF AdjustedDemand(p) > 20 * AdjDen THEN 3
    ELSE 5

\* max(0, floor(adjusted_demand * horizon - stock))
C23_Computed(p) ==
    IF AdjustedDemand(p) * C23_Horizon(p) <= p.stock * AdjDen THEN 0
    ELSE (AdjustedDemand(p) * C23_Horizon(p) - p.stock * AdjDen) \div AdjDen

C23_Raised(p) ==
    IF C23_Computed(p) < p.min_order_qty THEN p.min_order_qty ELSE C23_Computed(p)

C23_EmergencyQty(p) ==
    IF HasMax(p) /\ p.max_order_qty < C23_Raised(p) THEN p.max_order_qty
    ELSE C23_Raised(p)

C24_Candidate == sorted_products[pos]

C24_AttemptedQty ==
    IF C24_Candidate.has_emergency THEN C24_Candidate.emergency_qty
    ELSE C24_Candidate.qty

C24_AttemptedCost ==
    IF C24_Candidate.has_emergency THEN C24_Candidate.emergency_cost
    ELSE FMul(C24_Candidate.product.cost, FFromInt(C24_Candidate.qty))

C24_AffordableQty == FTrunc(FDiv(remaining_budget, C24_Candidate.product.cost))

\* C24: a candidate whose attempted cost exceeds the remaining budget is
\* skipped, the scan moving on, when floor(remaining_budget / cost) is below
\* its min_order_qty, and is otherwise committed with that quantity, which is
\* less than the attempted quantity, at total_cost = cost * qty <=
\* remaining budget.
C24_PartialOrder ==
    [][(pc = "scan" /\ FLt(remaining_budget, C24_AttemptedCost)) =>
          IF C24_AffordableQty < C24_Candidate.product.min_order_qty
          THEN /\ selected_items' = selected_items
               /\ pos' = pos + 1
               /\ pc' = IF pos' > Len(sorted_products) THEN "complete" ELSE "scan"
          ELSE /\ Len(selected_items') = Len(selected_items) + 1
               /\ LET it == selected_items'[Len(selected_items')]
                  IN  /\ it.product_id = C24_Candidate.product.product_id
                      /\ it.qty = C24_AffordableQty
                      /\ it.qty < C24_AttemptedQty
                      /\ it.total_cost = FMul(C24_Candidate.product.cost, FFromInt(it.qty))
                      /\ FLe(it.total_cost, remaining_budget)]_vars

\* the position of product p in the request, and of the candidate of product
\* id in the sorted list
C25_InputIndex(p) == CHOOSE i \in 1..Len(request.products) : request.products[i] = p

C25_SortedIndex(id) ==
    CHOOSE i \in 1..Len(sorted_products) : sorted_products[i].product.product_id = id

C25_SortKey(item) == IF IsCritical(item) THEN item.efficiency ELSE item.score

\* candidate a stands before candidate b: critical before non-critical, then
\* the larger key, then the earlier input position
C25_Before(a, b) ==
    IF IsCritical(a) # IsCritical(b) THEN IsCritical(a)
    ELSE IF C25_SortKey(a) # C25_SortKey(b) THEN RLt(C25_SortKey(b), C25_SortKey(a))
    ELSE C25_InputIndex(a.product) < C25_InputIndex(b.product)

C25_ListOrdered ==
    \A i, j \in 1..Len(sorted_products) :
        i < j => C25_Before(sorted_products[i], sorted_products[j])

C25_ItemsOrdered ==
    /\ \A j \in 1..Len(selected_items) :
          \E i \in 1..Len(sorted_products) :
              sorted_products[i].product.product_id = selected_items[j].product_id
    /\ \A j, k \in 1..Len(selected_items) :
          j < k => C25_SortedIndex(selected_items[j].product_id)
                       < C25_SortedIndex(selected_items[k].product_id)

\* one step of the scan takes the candidate at pos, appends its item or
\* nothing, and moves to the next position
C25_ScanStep ==
    pc = "scan" =>
        /\ pos' = pos + 1
        /\ sorted_products' = sorted_products
        /\ \/ selected_items' = selected_items
           \/ /\ Len(selected_items') = Len(selected_items) + 1
              /\ SubSeq(selected_items', 1, Len(selected_items)) = selected_items
              /\ selected_items'[Len(selected_items')].product_id
                    = sorted_products[pos].product.product_id

C26_Terminal == pc \in {"exhausted", "complete"}

\* one step of the run seen from the scan: the position starts at 1 and moves
\* by one per candidate; the scan ends exhausted exactly on a commit that
\* leaves less than one currency unit, else complete exactly behind the last
\* candidate; nothing is scanned after the end
C26_Step ==
    /\ (pc # "scan" /\ pc' = "scan") => pos' = 1
    /\ pc = "scan" =>
          /\ pos \in 1..Len(sorted_products)
          /\ pos' = pos + 1
          /\ pc' = IF Len(selected_items') > Len(selected_items)
                      /\ remaining_budget' < MoneyScale
                   THEN "exhausted"
                   ELSE IF pos = Len(sorted_products) THEN "complete" ELSE "scan"
    /\ (pc # "exhausted" /\ pc' = "exhausted") => pc = "scan"
    /\ (pc # "complete" /\ pc' = "complete") =>
          \/ pc = "scan"
          \/ pc = "filtered" /\ sorted_products' = <<>>
    /\ C26_Terminal =>
          /\ pc' = "done"
          /\ pos' = pos
          /\ selected_items' = selected_items
    /\ pc = "done" => UNCHANGED vars

\* C26: every allocation run ends, each candidate scanned at most once, either
\* exhausted (directly after a commit that leaves the remaining budget below
\* 1, the later candidates never scanned) or complete (every candidate
\* scanned).
C26_Termination ==
    /\ [][C26_Step]_vars
    /\ (pc = "filtered" /\ Len(valid_products) > 0) ~> C26_Terminal
    /\ C26_Terminal ~> (pc = "done")

\* a finished run that ended exhausted on its first commit, with two
\* candidates left unscanned
C26_Witness ==
    /\ pc = "done"
    /\ pos = 2
    /\ Len(sorted_products) = 3
    /\ Len(selected_items) = 1
    /\ remaining_budget < MoneyScale

\* C27: the emergency quantity of a critical candidate is at most its
\* full-cycle needed quantity.
C27_EmergencyAtMostFullCycle ==
    \A i \in 1..Len(sorted_products) :
        IsCritical(sorted_products[i])
        => sorted_products[i].emergency_qty <= sorted_products[i].qty

\* C28: a product with average daily sales 0 needs nothing, is no candidate
\* and has no returned item, so no returned item carries the days_of_stock
\* sentinel 999 and avg_days_of_stock is the mean of qty / avg_daily_sales.
C28_NoSalesNeverSelected ==
    /\ \A k \in 1..Len(valid_products) :
          valid_products[k].avg_daily_sales = 0
          => /\ ScoreOf(valid_products[k]).qty = 0
             /\ \A i \in 1..Len(sorted_products) :
                   sorted_products[i].product # valid_products[k]
             /\ ~HasItemFor(selected_items, valid_products[k])
             /\ ~HasItemFor(response.items, valid_products[k])
    /\ \A j \in 1..Len(response.items) :
          /\ ProductOf(response.items[j]).avg_daily_sales > 0
          /\ response.items[j].days_of_stock
                = Rat(response.items[j].qty * SalesDen,
                      ProductOf(response.items[j]).avg_daily_sales)
    /\ Len(response.items) > 0 =>
          RMul(response.totals.avg_days_of_stock, <<Len(response.items), 1>>)
             = RSumSeq([j \in 1..Len(response.items) |->
                          Rat(response.items[j].qty * SalesDen,
                              ProductOf(response.items[j]).avg_daily_sales)])

\* a finished run with the largest budget, a product without sales that
\* passed the filter and returned items for the other products
C28_Witness ==
    /\ pc = "done"
    /\ request.budget = 50000 * MoneyScale
    /\ Len(response.items) = 2
    /\ \E k \in 1..Len(valid_products) : valid_products[k].avg_daily_sales = 0

\* the multiplier was applied: the demand of one unit a day comes out larger
\* with the run's label (with its payday flag) than without it
C29_HolidayApplied ==
    apply_context_multipliers(SalesDen, FALSE, request.upcoming_holiday)
        > apply_context_multipliers(SalesDen, FALSE, None)

C29_PaydayApplied ==
    apply_context_multipliers(SalesDen, request.is_payday, None)
        > apply_context_multipliers(SalesDen, FALSE, None)

C29_HasEntry(kind) == \E i \in 1..Len(reasoning) : reasoning[i].kind = kind

\* C29: the reasoning list of a strategy holds the holiday entry iff the
\* holiday multiplier was applied to the demand, and the payday entry iff the
\* payday multiplier was applied.
C29_ReasoningMatchesMultipliers ==
    reasoning # <<>> =>
        /\ C29_HasEntry("holiday") <=> C29_HolidayApplied
        /\ C29_HasEntry("payday") <=> C29_PaydayApplied

\* the products of the request that passed the candidate filter, by identifier
C30_PassedFilter == {valid_products[i].product_id : i \in 1..Len(valid_products)}

\* the low-stock products of the request (C16_LowStock) that passed the filter
C30_LowStockPassed ==
    {i \in C16_LowStock : request.products[i].product_id \in C30_PassedFilter}

\* C30: the individual low-stock warnings and the severity roll-up refer only
\* to products that passed the candidate filter; a product removed for
\* cost >= price is reported through the exclusion count alone.
C30_LowStockWarningsOnlyForCandidates ==
    (pc = "done" /\ "diagnostics" \in stages) =>
        /\ \A k \in 1..Len(response.warnings) :
              C16_IsIndividual(response.warnings[k])
              => response.warnings[k].id \in C30_PassedFilter
        /\ \A k \in C16_WarningsOfKind("summary") :
              response.warnings[k].id + response.warnings[k].x + response.warnings[k].y
                 = Cardinality(C30_LowStockPassed)
        /\ (C16_WarningsOfKind("summary") # {}) <=> (C30_LowStockPassed # {})
====
